---- MODULE Spec2Model ----
(***************************************************************************)
(* A model of src/atomics.hpp: the lock-free containers of tycho::atomic.  *)
(*                                                                         *)
(* dictionary_t<K,V,S> is modelled at the granularity of its memory        *)
(* accesses: every atomic load, store, exchange and compare-exchange,      *)
(* every read or write of a node's field, and every new/delete is one      *)
(* step of the calling thread.  The same steps run under three             *)
(* schedulers: SpecSeq (one call at a time), SpecIns (concurrent insert of *)
(* pairwise distinct keys) and SpecConc (any calls, concurrently).         *)
(*                                                                         *)
(* buffer_t<T,S> is modelled the same way, with one call at a time in      *)
(* SpecBuf and with a producer and a consumer running concurrently in      *)
(* SpecSpsc.                                                               *)
(*                                                                         *)
(* stack_t<T,S>, once_t and sequence_t<T> are modelled by their atomic     *)
(* accesses: SpecStack and SpecCounter run one call at a time,             *)
(* SpecStackConc, SpecOnce and SpecCounterConc the calls of several        *)
(* threads concurrently.                                                   *)
(***************************************************************************)
EXTENDS Integers, Sequences, FiniteSets, TLC

\* ------------------------------------------------------------------ bounds

\* dictionary_t<K,V,S>: the bucket count S of the instance modelled.
DictS == 2
\* Keys are 0..MaxKey, values 1..MaxVal.
MaxKey == 2
MaxVal == 2
\* Heap cells available to nodes.
MaxNodes == 3
\* Threads of the concurrent specifications.
NThreads == 2
\* Calls made in one behaviour of SpecConc.
MaxCalls == 3
\* buffer_t<T,S>: the slot count S of the instance modelled (S > 2).
BufS == 3
\* Items are 1..MaxItem.
MaxItem == 2
\* Ring buffer calls made in one behaviour.
MaxBufCalls == 6
\* stack_t<T,S>: the slot count S of the instance modelled (S > 2).
StackS == 3
\* sequence_t<T>: the width in bits of the unsigned type T modelled.
SeqBits == 2
\* Calls of stack_t, once_t or sequence_t made in one behaviour.
MaxPrimCalls == 5
\* The log's length beyond which no call starts in the concurrent
\* specification of stack_t.
MaxRaceCalls == 3
\* atomic_ref<T>: the width in bits of the integral type T modelled.
RefBits == 1
\* The log's length beyond which no call of atomic_ref starts.
MaxRefCalls == 2
\* dictionary_t: the width in bits of the std::size_t of count_ modelled
\* (2 ^ CountBits exceeds MaxNodes, so that counting the nodes never wraps).
CountBits == 3
\* Calls made in one behaviour of the specification of concurrent insert and
\* remove.
MaxChainCalls == 5

Keys == 0..MaxKey
Vals == 1..MaxVal
Nodes == 1..MaxNodes
Threads == 1..NThreads
Buckets == 0..(DictS - 1)
Items == 1..MaxItem
Slots == 0..(BufS - 1)
StackSlots == 0..(StackS - 1)
\* std::numeric_limits<T>::max() + 1 of sequence_t's counter type
SeqMod == 2 ^ SeqBits
SeqVals == 0..(SeqMod - 1)
\* the number of values of atomic_ref's type T, and the values
RefMod == 2 ^ RefBits
CountMod == 2 ^ CountBits
RefVals == 0..(RefMod - 1)
\* the producer and the consumer of the ring buffer
Roles == {"producer", "consumer"}

\* nullptr
Null == 0
\* std::nullopt, and the value of a node that holds none
NullOpt == 0
\* the std::out_of_range thrown by at()
OutOfRange == "out_of_range"
\* a call that has not returned
NoRet == "none"

\* ------------------------------------------------------------------- state

VARIABLES
    table_,        \* dictionary_t::table_ : bucket -> head node or Null
    count_,        \* dictionary_t::count_ (an unsigned counter of CountBits
                   \* bits)
    node_key,      \* node::key    of every heap cell
    node_value,    \* node::value  of every heap cell
    node_next,     \* node::next   of every heap cell
    live,          \* heap cells allocated by new and not yet deleted
    th,            \* per thread: the call in progress, its locals, its result
    ub,            \* a freed cell has been read, written or deleted again
    calls,         \* calls started so far (SpecConc)
    hist,          \* SpecSeq: which kind of calls have been made so far
    assigned,      \* key -> the value most recently passed to insert /
                   \* insert_or_assign for it (NullOpt: none)
    pre,           \* SpecSeq: the dictionary as it was when the call started
    head_, tail_,  \* buffer_t::head_, buffer_t::tail_
    data_,         \* buffer_t::data_
    bth,           \* the ring buffer call in progress, its locals, its result
    blog,          \* the ring buffer calls that returned, oldest first
    stack_count_,  \* stack_t::count_
    stack_data_,   \* stack_t::data_
    flag_,         \* once_t::flag_
    seq_,          \* sequence_t::seq_
    ath,           \* per thread: its call of stack_t, once_t or sequence_t
    alog,          \* stack_t: the calls that returned, oldest first;
                   \* once_t, sequence_t: the atomic accesses, in their order
    ref,           \* atomic_ref::ref, the location the handles refer to
    ref_path,      \* atomic_ref: the branch of #if / if constexpr compiled
    ref0,          \* atomic_ref: the value of the location when the handles
                   \* were made
    rth,           \* per thread: its call of atomic_ref
    rlog           \* atomic_ref: the calls that returned, oldest first

dvars == <<table_, count_, node_key, node_value, node_next, live, th, ub,
           calls, hist, assigned, pre>>
bvars == <<head_, tail_, data_, bth, blog>>
avars == <<stack_count_, stack_data_, flag_, seq_, ath, alog>>
rvars == <<ref, ref_path, ref0, rth, rlog>>
vars == <<table_, count_, node_key, node_value, node_next, live, th, ub,
          calls, hist, assigned, pre, head_, tail_, data_, bth, blog,
          stack_count_, stack_data_, flag_, seq_, ath, alog,
          ref, ref_path, ref0, rth, rlog>>

\* --------------------------------------------------- dictionary_t: helpers

\* std::hash<K>()(key) for the integral keys of the model
Hash(k) == k

\* dictionary_t::key_index
key_index(k) == Hash(k) % DictS

\* The state a key object can be left in by node(K&& k, V&& v), which moves
\* from it: unchanged for a trivially copyable K, the empty value (key 0 of
\* the model) for a K such as std::string.
MovedFrom(k) == {k, 0}

\* What a thread holds between two calls.
IdleT == [pc |-> "idle", op |-> "none", key |-> 0, val |-> 0, index |-> 0,
          made |-> Null, outer |-> Null, expected |-> Null, current |-> Null,
          prev |-> Null, next |-> Null, mkey |-> 0, b |-> 0,
          ret |-> NoRet, rval |-> 0]

L(t) == th[t]

\* The cells some pointer of the program holds: the bucket heads, the next
\* links of the allocated nodes and the threads' locals.
Referenced ==
    {table_[b] : b \in Buckets} \cup {node_next[n] : n \in live}
    \cup UNION {{th[t].made, th[t].outer, th[t].expected, th[t].current,
                 th[t].prev, th[t].next} : t \in Threads}

Min(c) == CHOOSE x \in c : \A y \in c : x <= y

\* The cells operator new may return, given the set of cells in use: any
\* free cell.  Free cells that no pointer holds are interchangeable, so the
\* lowest of them stands for all; a free cell that a stale pointer still
\* holds is a choice of its own.
Fresh(inuse) ==
    LET free == Nodes \ inuse
        stale == free \cap Referenced
        clean == free \ Referenced
    IN stale \cup (IF clean = {} THEN {} ELSE {Min(clean)})

\* Reading a field of node n: its content while n is allocated, anything of
\* the field's type once n was deleted (use after free).
ReadKey(n) == IF n \in live THEN {node_key[n]} ELSE Keys
ReadValue(n) == IF n \in live THEN {node_value[n]} ELSE Vals
ReadNext(n) == IF n \in live THEN {node_next[n]} ELSE Nodes \cup {Null}

\* The dictionary's own state, as a value.
Snapshot == [table |-> table_, key |-> node_key, value |-> node_value,
             next |-> node_next, count |-> count_, live |-> live]

\* The nodes on the chain that starts at node n in dictionary state s, in
\* chain order (at most MaxNodes of them: a chain can hold no more distinct
\* cells).
RECURSIVE ChainFrom(_, _, _)
ChainFrom(s, n, fuel) ==
    IF n = Null \/ fuel = 0 THEN <<>>
    ELSE <<n>> \o ChainFrom(s, s.next[n], fuel - 1)

ChainIn(s, b) == ChainFrom(s, s.table[b], MaxNodes)

Chain(b) == ChainIn(Snapshot, b)

Range(q) == {q[i] : i \in 1..Len(q)}

\* The nodes reachable from the bucket heads.
Reachable == UNION {Range(Chain(b)) : b \in Buckets}

\* The number of (bucket, position) pairs that hold a node.
RECURSIVE EntriesFrom(_, _)
EntriesFrom(s, b) == IF b = DictS THEN 0 ELSE Len(ChainIn(s, b)) + EntriesFrom(s, b + 1)

Entries == EntriesFrom(Snapshot, 0)

\* The first node from n on that holds k, or Null: the loop of find,
\* contains and at.
RECURSIVE Lookup(_, _, _, _)
Lookup(s, n, k, fuel) ==
    IF n = Null \/ fuel = 0 THEN Null
    ELSE IF s.key[n] = k THEN n
    ELSE Lookup(s, s.next[n], k, fuel - 1)

\* dictionary_t::find, contains and at run to completion on dictionary
\* state s (no other thread active).
FindIn(s, k) == LET n == Lookup(s, s.table[key_index(k)], k, MaxNodes)
                IN IF n = Null THEN NullOpt ELSE s.value[n]

ContainsIn(s, k) == Lookup(s, s.table[key_index(k)], k, MaxNodes) # Null

AtIn(s, k) == LET n == Lookup(s, s.table[key_index(k)], k, MaxNodes)
              IN IF n = Null THEN [ret |-> OutOfRange, rval |-> 0]
                 ELSE [ret |-> "value", rval |-> s.value[n]]

find(k) == FindIn(Snapshot, k)

contains(k) == ContainsIn(Snapshot, k)

at(k) == AtIn(Snapshot, k)

size == count_

empty == count_ = 0

Quiescent == \A t \in Threads : th[t].pc = "idle"

\* ---------------------------------------------------- heap: new and delete

\* new node(k, v) returning cell n; `inuse` is the set of cells allocated
\* when new runs and `rest` the heap the step leaves otherwise.
Alloc(n, k, v, inuse) ==
    /\ n \in Fresh(inuse)
    /\ live' = inuse \cup {n}
    /\ node_key' = [c \in Nodes |-> IF c = n THEN k
                                   ELSE IF c \in inuse THEN node_key[c] ELSE 0]
    /\ node_value' = [c \in Nodes |-> IF c = n THEN v
                                     ELSE IF c \in inuse THEN node_value[c] ELSE 0]
    /\ node_next' = [c \in Nodes |-> IF c = n THEN Null
                                    ELSE IF c \in inuse THEN node_next[c] ELSE Null]

\* delete n: the cell returns to the allocator and its content is gone
\* (deleting a cell that is not allocated is a double free: the steps that
\* delete record it in ub).
Free(n) ==
    /\ live' = live \ {n}
    /\ node_key' = [node_key EXCEPT ![n] = 0]
    /\ node_value' = [node_value EXCEPT ![n] = 0]
    /\ node_next' = [node_next EXCEPT ![n] = Null]

Step(t, r) == th' = [th EXCEPT ![t] = r]

\* The call of thread t has its result; its locals are gone.
Done(t, r, v) == [IdleT EXCEPT !.pc = "done", !.op = th[t].op, !.key = th[t].key,
                               !.val = th[t].val, !.ret = r, !.rval = v]


\* What a step of the dictionary leaves alone: its ghosts, the other
\* containers, the heap.
Ghosts == UNCHANGED <<calls, hist, assigned, pre>>
Buffer == UNCHANGED <<head_, tail_, data_, bth, blog,
                      stack_count_, stack_data_, flag_, seq_, ath, alog,
                      ref, ref_path, ref0, rth, rlog>>
SameHeap == UNCHANGED <<node_key, node_value, node_next, live>>

\* n->next.store(v)
StoreNext(n, v) ==
    /\ node_next' = IF n \in live THEN [node_next EXCEPT ![n] = v] ELSE node_next
    /\ ub' = (ub \/ n \notin live)

\* The allocations a call makes while one of its nodes is still allocated.
Need(o) == CASE o = "try_emplace" -> 2
             [] o \in {"insert", "emplace", "insert_or_assign"} -> 1
             [] OTHER -> 0

\* Cells that calls in progress will still ask for.
Reserved == Cardinality({t \in Threads : /\ th[t].op = "try_emplace"
                                         /\ th[t].outer = Null
                                         /\ th[t].pc # "done"})

FirstPc(o) == CASE o = "insert" -> "insert_load"
                [] o = "insert_or_assign" -> "ioa_load"
                [] o = "emplace" -> "emplace_load"
                [] o = "try_emplace" -> "te_load"
                [] o = "find" -> "find_load"
                [] o = "contains" -> "contains_load"
                [] o = "at" -> "at_load"
                [] o = "remove" -> "remove_load"
                [] OTHER -> "clear_xchg"

\* ------------------------------------------------- dictionary_t: the calls

\* A thread enters insert, insert_or_assign, emplace or try_emplace with key
\* k and value v: the bucket index is computed and the node is made.  mk is
\* the state of the caller's key object once the node is made (k itself
\* where the node copies it).
Enter(t, o, k, v, mk) ==
    /\ th[t].pc = "idle"
    /\ o \in {"insert", "insert_or_assign", "emplace", "try_emplace"}
    /\ mk \in (IF o = "try_emplace" THEN MovedFrom(k) ELSE {k})
    /\ Cardinality(Nodes \ live) - Reserved >= Need(o)
    /\ \E n \in Fresh(live) :
          /\ Alloc(n, k, v, live)
          /\ Step(t, [IdleT EXCEPT !.pc = FirstPc(o), !.op = o, !.key = k,
                                   !.val = v, !.index = key_index(k),
                                   !.made = n, !.mkey = mk])
    /\ UNCHANGED <<table_, count_, ub>>

\* A thread enters find, contains, at or remove with key k, or clear.
EnterPlain(t, o, k) ==
    /\ th[t].pc = "idle"
    /\ o \in {"find", "contains", "at", "remove", "clear"}
    /\ Step(t, [IdleT EXCEPT !.pc = FirstPc(o), !.op = o, !.key = k,
                             !.index = key_index(k), !.mkey = k])
    /\ SameHeap
    /\ UNCHANGED <<table_, count_, ub>>

\* The call returns to its caller.
Return(t) ==
    /\ th[t].pc = "done"
    /\ Step(t, IdleT)
    /\ pre' = <<>>
    /\ SameHeap
    /\ UNCHANGED <<table_, count_, ub, calls, hist, assigned>>
    /\ Buffer

\* ---- insert

\* insert that does not link its node to the chain it found.
insert_load_unlinked(t) ==
    /\ th[t].pc = "insert_load"
    /\ Step(t, [L(t) EXCEPT !.pc = "insert_cas", !.expected = table_[L(t).index]])
    /\ UNCHANGED <<table_, count_, node_key, node_value, node_next, live, ub>>
    /\ Ghosts /\ Buffer

\* expected = table_[index].load(); made->next.store(expected);
insert_load(t) ==
    /\ th[t].pc = "insert_load"
    /\ Step(t, [L(t) EXCEPT !.pc = "insert_cas", !.expected = table_[L(t).index]])
    /\ StoreNext(L(t).made, table_[L(t).index])
    /\ UNCHANGED <<table_, count_, node_key, node_value, live>>
    /\ Ghosts /\ Buffer

\* insert's exchange without the compare: the head is overwritten whatever
\* it holds.
insert_cas_blind(t) ==
    /\ th[t].pc = "insert_cas"
    /\ table_' = [table_ EXCEPT ![L(t).index] = L(t).made]
    /\ Step(t, [L(t) EXCEPT !.pc = "insert_count", !.expected = Null,
                            !.made = Null])
    /\ SameHeap
    /\ UNCHANGED <<count_, ub>>
    /\ Ghosts /\ Buffer

\* insert's loop without the reload: after a failed exchange the same stale
\* expected is compared again, and the exchange never fails without cause.
insert_cas_stale(t) ==
    /\ th[t].pc = "insert_cas"
    /\ table_[L(t).index] = L(t).expected
    /\ table_' = [table_ EXCEPT ![L(t).index] = L(t).made]
    /\ Step(t, [L(t) EXCEPT !.pc = "insert_count", !.expected = Null,
                            !.made = Null])
    /\ SameHeap
    /\ UNCHANGED <<count_, ub>>
    /\ Ghosts /\ Buffer

\* table_[index].compare_exchange_weak(expected, made): it may also fail
\* although the head still equals expected.
insert_cas(t) ==
    /\ th[t].pc = "insert_cas"
    /\ \/ /\ table_[L(t).index] = L(t).expected
          /\ table_' = [table_ EXCEPT ![L(t).index] = L(t).made]
          /\ Step(t, [L(t) EXCEPT !.pc = "insert_count", !.expected = Null,
                                  !.made = Null])
       \/ /\ Step(t, [L(t) EXCEPT !.pc = "insert_load",
                                  !.expected = table_[L(t).index]])
          /\ UNCHANGED table_
    /\ SameHeap
    /\ UNCHANGED <<count_, ub>>
    /\ Ghosts /\ Buffer

\* count_.fetch_add(1); return true;
insert_count(t) ==
    /\ th[t].pc = "insert_count"
    /\ count_' = (count_ + 1) % CountMod
    /\ Step(t, Done(t, "true", 0))
    /\ SameHeap
    /\ UNCHANGED <<table_, ub>>
    /\ Ghosts /\ Buffer

\* ---- insert_or_assign

\* current = table_[index].load();
ioa_load(t) ==
    /\ th[t].pc = "ioa_load"
    /\ Step(t, [L(t) EXCEPT !.pc = "ioa_test", !.current = table_[L(t).index]])
    /\ SameHeap
    /\ UNCHANGED <<table_, count_, ub>>
    /\ Ghosts /\ Buffer

\* insert_or_assign whose scan takes no node for a match.
ioa_test_nomatch(t) ==
    /\ th[t].pc = "ioa_test"
    /\ IF L(t).current = Null
       THEN /\ \E n \in Fresh(live \ {L(t).made}) :
                  /\ Alloc(n, L(t).key, L(t).val, live \ {L(t).made})
                  /\ Step(t, [L(t) EXCEPT !.pc = "insert_load", !.made = n])
            /\ ub' = (ub \/ L(t).made \notin live)
       ELSE /\ Step(t, [L(t) EXCEPT !.pc = "ioa_next"])
            /\ ub' = (ub \/ L(t).current \notin live)
            /\ SameHeap
    /\ UNCHANGED <<table_, count_>>
    /\ Ghosts /\ Buffer

\* while(current != nullptr) { if(current->key == key) ...;  at the end of
\* the chain: delete made; insert(key, value) makes its own node.
ioa_test(t) ==
    /\ th[t].pc = "ioa_test"
    /\ IF L(t).current = Null
       THEN /\ \E n \in Fresh(live \ {L(t).made}) :
                  /\ Alloc(n, L(t).key, L(t).val, live \ {L(t).made})
                  /\ Step(t, [L(t) EXCEPT !.pc = "insert_load", !.made = n])
            /\ ub' = (ub \/ L(t).made \notin live)
       ELSE /\ \E k \in ReadKey(L(t).current) :
                  Step(t, [L(t) EXCEPT !.pc = IF k = L(t).key THEN "ioa_assign"
                                                               ELSE "ioa_next"])
            /\ ub' = (ub \/ L(t).current \notin live)
            /\ SameHeap
    /\ UNCHANGED <<table_, count_>>
    /\ Ghosts /\ Buffer

\* insert_or_assign that finds the key and leaves its value as it is.
ioa_assign_keep(t) ==
    /\ th[t].pc = "ioa_assign"
    /\ Free(L(t).made)
    /\ ub' = (ub \/ L(t).made \notin live)
    /\ Step(t, Done(t, "true", 0))
    /\ UNCHANGED <<table_, count_>>
    /\ Ghosts /\ Buffer

\* current->value = value; delete made; return true;
ioa_assign(t) ==
    /\ th[t].pc = "ioa_assign"
    /\ LET c == L(t).current
           m == L(t).made
       IN /\ node_value' = [n \in Nodes |->
                              IF n = m THEN 0
                              ELSE IF n = c /\ c \in live THEN L(t).val
                              ELSE node_value[n]]
          /\ node_key' = [node_key EXCEPT ![m] = 0]
          /\ node_next' = [node_next EXCEPT ![m] = Null]
          /\ live' = live \ {m}
          /\ ub' = (ub \/ c \notin live \/ m \notin live)
    /\ Step(t, Done(t, "true", 0))
    /\ UNCHANGED <<table_, count_>>
    /\ Ghosts /\ Buffer

\* current = current->next.load();
ioa_next(t) ==
    /\ th[t].pc = "ioa_next"
    /\ \E n \in ReadNext(L(t).current) :
          Step(t, [L(t) EXCEPT !.pc = "ioa_test", !.current = n])
    /\ ub' = (ub \/ L(t).current \notin live)
    /\ SameHeap
    /\ UNCHANGED <<table_, count_>>
    /\ Ghosts /\ Buffer

\* ---- emplace

\* expected = table_[index].load(); made->next.store(expected);
emplace_load(t) ==
    /\ th[t].pc = "emplace_load"
    /\ Step(t, [L(t) EXCEPT !.pc = "emplace_cas", !.expected = table_[L(t).index]])
    /\ StoreNext(L(t).made, table_[L(t).index])
    /\ UNCHANGED <<table_, count_, node_key, node_value, live>>
    /\ Ghosts /\ Buffer

\* table_[index].compare_exchange_weak(expected, made)
emplace_cas(t) ==
    /\ th[t].pc = "emplace_cas"
    /\ \/ /\ table_[L(t).index] = L(t).expected
          /\ table_' = [table_ EXCEPT ![L(t).index] = L(t).made]
          /\ Step(t, [L(t) EXCEPT !.pc = "emplace_count", !.expected = Null,
                                  !.made = Null])
       \/ /\ Step(t, [L(t) EXCEPT !.pc = "emplace_load",
                                  !.expected = table_[L(t).index]])
          /\ UNCHANGED table_
    /\ SameHeap
    /\ UNCHANGED <<count_, ub>>
    /\ Ghosts /\ Buffer

\* count_.fetch_add(1); return true;  (back in try_emplace when it made the
\* call)
emplace_count(t) ==
    /\ th[t].pc = "emplace_count"
    /\ count_' = (count_ + 1) % CountMod
    /\ Step(t, IF L(t).op = "try_emplace"
               THEN [L(t) EXCEPT !.pc = "te_delete"]
               ELSE Done(t, "true", 0))
    /\ SameHeap
    /\ UNCHANGED <<table_, ub>>
    /\ Ghosts /\ Buffer

\* ---- try_emplace

\* current = table_[index].load();
te_load(t) ==
    /\ th[t].pc = "te_load"
    /\ Step(t, [L(t) EXCEPT !.pc = "te_test", !.current = table_[L(t).index]])
    /\ SameHeap
    /\ UNCHANGED <<table_, count_, ub>>
    /\ Ghosts /\ Buffer

\* while(current != nullptr) { if(current->key == key) { delete made;
\* return false; } ...: key is the caller's object, which the node was made
\* from.
te_test(t) ==
    /\ th[t].pc = "te_test"
    /\ IF L(t).current = Null
       THEN /\ Step(t, [L(t) EXCEPT !.pc = "te_emplace", !.mkey = 0])
            /\ SameHeap
            /\ UNCHANGED ub
       ELSE \E k \in ReadKey(L(t).current) :
               IF k = L(t).mkey
               THEN /\ Free(L(t).made)
                    /\ ub' = (ub \/ L(t).current \notin live \/ L(t).made \notin live)
                    /\ Step(t, Done(t, "false", 0))
               ELSE /\ Step(t, [L(t) EXCEPT !.pc = "te_next"])
                    /\ ub' = (ub \/ L(t).current \notin live)
                    /\ SameHeap
    /\ UNCHANGED <<table_, count_>>
    /\ Ghosts /\ Buffer

\* current = current->next.load();
te_next(t) ==
    /\ th[t].pc = "te_next"
    /\ \E n \in ReadNext(L(t).current) :
          Step(t, [L(t) EXCEPT !.pc = "te_test", !.current = n])
    /\ ub' = (ub \/ L(t).current \notin live)
    /\ SameHeap
    /\ UNCHANGED <<table_, count_>>
    /\ Ghosts /\ Buffer

\* emplace(std::move(made->key), std::move(made->value)): emplace computes
\* the index of made->key and makes its own node from it.
te_emplace(t) ==
    /\ th[t].pc = "te_emplace"
    /\ \E k \in ReadKey(L(t).made), v \in ReadValue(L(t).made),
          n \in Fresh(live) :
          /\ Alloc(n, k, v, live)
          /\ Step(t, [L(t) EXCEPT !.pc = "emplace_load", !.index = key_index(k),
                                  !.outer = L(t).made, !.made = n])
    /\ ub' = (ub \/ L(t).made \notin live)
    /\ UNCHANGED <<table_, count_>>
    /\ Ghosts /\ Buffer

\* delete made; return true;
te_delete(t) ==
    /\ th[t].pc = "te_delete"
    /\ Free(L(t).outer)
    /\ ub' = (ub \/ L(t).outer \notin live)
    /\ Step(t, Done(t, "true", 0))
    /\ UNCHANGED <<table_, count_>>
    /\ Ghosts /\ Buffer


\* ---- find

\* current = table_[index].load();
find_load(t) ==
    /\ th[t].pc = "find_load"
    /\ Step(t, [L(t) EXCEPT !.pc = "find_test", !.current = table_[L(t).index]])
    /\ SameHeap
    /\ UNCHANGED <<table_, count_, ub>>
    /\ Ghosts /\ Buffer

\* while(current != nullptr) { if(current->key == key) return
\* current->value; ... } return std::nullopt;
find_test(t) ==
    /\ th[t].pc = "find_test"
    /\ IF L(t).current = Null
       THEN /\ Step(t, Done(t, "nullopt", 0))
            /\ UNCHANGED ub
       ELSE /\ \E k \in ReadKey(L(t).current), v \in ReadValue(L(t).current) :
                  Step(t, IF k = L(t).key
                          THEN Done(t, "value", v)
                          ELSE [L(t) EXCEPT !.pc = "find_next"])
            /\ ub' = (ub \/ L(t).current \notin live)
    /\ SameHeap
    /\ UNCHANGED <<table_, count_>>
    /\ Ghosts /\ Buffer

\* current = current->next.load();
find_next(t) ==
    /\ th[t].pc = "find_next"
    /\ \E n \in ReadNext(L(t).current) :
          Step(t, [L(t) EXCEPT !.pc = "find_test", !.current = n])
    /\ ub' = (ub \/ L(t).current \notin live)
    /\ SameHeap
    /\ UNCHANGED <<table_, count_>>
    /\ Ghosts /\ Buffer

\* ---- contains

\* current = table_[index].load();
contains_load(t) ==
    /\ th[t].pc = "contains_load"
    /\ Step(t, [L(t) EXCEPT !.pc = "contains_test", !.current = table_[L(t).index]])
    /\ SameHeap
    /\ UNCHANGED <<table_, count_, ub>>
    /\ Ghosts /\ Buffer

\* while(current != nullptr) { if(current->key == key) return true; ... }
\* return false;
contains_test(t) ==
    /\ th[t].pc = "contains_test"
    /\ IF L(t).current = Null
       THEN /\ Step(t, Done(t, "false", 0))
            /\ UNCHANGED ub
       ELSE /\ \E k \in ReadKey(L(t).current) :
                  Step(t, IF k = L(t).key
                          THEN Done(t, "true", 0)
                          ELSE [L(t) EXCEPT !.pc = "contains_next"])
            /\ ub' = (ub \/ L(t).current \notin live)
    /\ SameHeap
    /\ UNCHANGED <<table_, count_>>
    /\ Ghosts /\ Buffer

\* current = current->next.load();
contains_next(t) ==
    /\ th[t].pc = "contains_next"
    /\ \E n \in ReadNext(L(t).current) :
          Step(t, [L(t) EXCEPT !.pc = "contains_test", !.current = n])
    /\ ub' = (ub \/ L(t).current \notin live)
    /\ SameHeap
    /\ UNCHANGED <<table_, count_>>
    /\ Ghosts /\ Buffer

\* ---- at

\* current = table_[index].load();
at_load(t) ==
    /\ th[t].pc = "at_load"
    /\ Step(t, [L(t) EXCEPT !.pc = "at_test", !.current = table_[L(t).index]])
    /\ SameHeap
    /\ UNCHANGED <<table_, count_, ub>>
    /\ Ghosts /\ Buffer

\* at that returns a default value where it should throw.
at_test_nothrow(t) ==
    /\ th[t].pc = "at_test"
    /\ IF L(t).current = Null
       THEN /\ Step(t, Done(t, "value", 0))
            /\ UNCHANGED ub
       ELSE /\ \E k \in ReadKey(L(t).current), v \in ReadValue(L(t).current) :
                  Step(t, IF k = L(t).key
                          THEN Done(t, "value", v)
                          ELSE [L(t) EXCEPT !.pc = "at_next"])
            /\ ub' = (ub \/ L(t).current \notin live)
    /\ SameHeap
    /\ UNCHANGED <<table_, count_>>
    /\ Ghosts /\ Buffer

\* while(current != nullptr) { if(current->key == key) return
\* current->value; ... } throw std::out_of_range("Key not in dictionary");
at_test(t) ==
    /\ th[t].pc = "at_test"
    /\ IF L(t).current = Null
       THEN /\ Step(t, Done(t, OutOfRange, 0))
            /\ UNCHANGED ub
       ELSE /\ \E k \in ReadKey(L(t).current), v \in ReadValue(L(t).current) :
                  Step(t, IF k = L(t).key
                          THEN Done(t, "value", v)
                          ELSE [L(t) EXCEPT !.pc = "at_next"])
            /\ ub' = (ub \/ L(t).current \notin live)
    /\ SameHeap
    /\ UNCHANGED <<table_, count_>>
    /\ Ghosts /\ Buffer

\* current = current->next.load();
at_next(t) ==
    /\ th[t].pc = "at_next"
    /\ \E n \in ReadNext(L(t).current) :
          Step(t, [L(t) EXCEPT !.pc = "at_test", !.current = n])
    /\ ub' = (ub \/ L(t).current \notin live)
    /\ SameHeap
    /\ UNCHANGED <<table_, count_>>
    /\ Ghosts /\ Buffer

\* ---- remove

\* current = table_[index].load(); prev = nullptr;
remove_load(t) ==
    /\ th[t].pc = "remove_load"
    /\ Step(t, [L(t) EXCEPT !.pc = "remove_test", !.current = table_[L(t).index],
                            !.prev = Null])
    /\ SameHeap
    /\ UNCHANGED <<table_, count_, ub>>
    /\ Ghosts /\ Buffer

\* while(current != nullptr) { if(current->key == key) ... } return false;
remove_test(t) ==
    /\ th[t].pc = "remove_test"
    /\ IF L(t).current = Null
       THEN /\ Step(t, Done(t, "false", 0))
            /\ UNCHANGED ub
       ELSE /\ \E k \in ReadKey(L(t).current) :
                  Step(t, [L(t) EXCEPT !.pc = IF k = L(t).key THEN "remove_next"
                                                               ELSE "remove_advance"])
            /\ ub' = (ub \/ L(t).current \notin live)
    /\ SameHeap
    /\ UNCHANGED <<table_, count_>>
    /\ Ghosts /\ Buffer

\* auto next = current->next.load();
remove_next(t) ==
    /\ th[t].pc = "remove_next"
    /\ \E n \in ReadNext(L(t).current) :
          Step(t, [L(t) EXCEPT !.pc = "remove_unlink", !.next = n])
    /\ ub' = (ub \/ L(t).current \notin live)
    /\ SameHeap
    /\ UNCHANGED <<table_, count_>>
    /\ Ghosts /\ Buffer

\* remove that neither unlinks nor deletes the node it found.
remove_unlink_forgot(t) ==
    /\ th[t].pc = "remove_unlink"
    /\ Step(t, [L(t) EXCEPT !.pc = "remove_count", !.prev = Null, !.next = Null,
                            !.current = Null])
    /\ SameHeap
    /\ UNCHANGED <<table_, count_, ub>>
    /\ Ghosts /\ Buffer

\* remove that always stores the successor in the bucket head.
remove_unlink_head(t) ==
    /\ th[t].pc = "remove_unlink"
    /\ table_' = [table_ EXCEPT ![L(t).index] = L(t).next]
    /\ Step(t, [L(t) EXCEPT !.pc = "remove_delete", !.prev = Null, !.next = Null])
    /\ UNCHANGED <<count_, node_key, node_value, node_next, live, ub>>
    /\ Ghosts /\ Buffer

\* if(prev != nullptr) prev->next.store(next); else table_[index].store(next);
remove_unlink(t) ==
    /\ th[t].pc = "remove_unlink"
    /\ IF L(t).prev # Null
       THEN /\ StoreNext(L(t).prev, L(t).next)
            /\ UNCHANGED table_
       ELSE /\ table_' = [table_ EXCEPT ![L(t).index] = L(t).next]
            /\ UNCHANGED <<node_next, ub>>
    /\ Step(t, [L(t) EXCEPT !.pc = "remove_delete", !.prev = Null, !.next = Null])
    /\ UNCHANGED <<count_, node_key, node_value, live>>
    /\ Ghosts /\ Buffer

\* A delete that waits: the node is deleted only when no other thread holds
\* a pointer to it, and is left allocated otherwise.
remove_delete_deferred(t) ==
    /\ th[t].pc = "remove_delete"
    /\ IF \E u \in Threads \ {t} : th[u].current = L(t).current
       THEN SameHeap /\ UNCHANGED ub
       ELSE Free(L(t).current) /\ ub' = (ub \/ L(t).current \notin live)
    /\ Step(t, [L(t) EXCEPT !.pc = "remove_count", !.current = Null])
    /\ UNCHANGED <<table_, count_>>
    /\ Ghosts /\ Buffer

\* delete current;
remove_delete(t) ==
    /\ th[t].pc = "remove_delete"
    /\ Free(L(t).current)
    /\ ub' = (ub \/ L(t).current \notin live)
    /\ Step(t, [L(t) EXCEPT !.pc = "remove_count", !.current = Null])
    /\ UNCHANGED <<table_, count_>>
    /\ Ghosts /\ Buffer

\* remove that leaves the count as it is.
remove_count_forgot(t) ==
    /\ th[t].pc = "remove_count"
    /\ Step(t, Done(t, "true", 0))
    /\ SameHeap
    /\ UNCHANGED <<table_, count_, ub>>
    /\ Ghosts /\ Buffer

\* count_.fetch_sub(1); return true;
remove_count(t) ==
    /\ th[t].pc = "remove_count"
    /\ count_' = (count_ - 1) % CountMod
    /\ Step(t, Done(t, "true", 0))
    /\ SameHeap
    /\ UNCHANGED <<table_, ub>>
    /\ Ghosts /\ Buffer

\* prev = current; current = current->next.load();
remove_advance(t) ==
    /\ th[t].pc = "remove_advance"
    /\ \E n \in ReadNext(L(t).current) :
          Step(t, [L(t) EXCEPT !.pc = "remove_test", !.prev = L(t).current,
                                  !.current = n])
    /\ ub' = (ub \/ L(t).current \notin live)
    /\ SameHeap
    /\ UNCHANGED <<table_, count_>>
    /\ Ghosts /\ Buffer

\* ---- clear

\* for(auto& bucket : table_) { auto current = bucket.exchange(nullptr); ...
\* } count_.store(0);
clear_xchg(t) ==
    /\ th[t].pc = "clear_xchg"
    /\ IF L(t).b = DictS
       THEN /\ count_' = 0
            /\ Step(t, Done(t, "void", 0))
            /\ UNCHANGED table_
       ELSE /\ table_' = [table_ EXCEPT ![L(t).b] = Null]
            /\ Step(t, [L(t) EXCEPT !.pc = "clear_walk", !.current = table_[L(t).b]])
            /\ UNCHANGED count_
    /\ SameHeap
    /\ UNCHANGED ub
    /\ Ghosts /\ Buffer

\* while(current != nullptr) { auto next = current->next.load();
clear_walk(t) ==
    /\ th[t].pc = "clear_walk"
    /\ IF L(t).current = Null
       THEN /\ Step(t, [L(t) EXCEPT !.pc = "clear_xchg", !.b = L(t).b + 1])
            /\ UNCHANGED ub
       ELSE /\ \E n \in ReadNext(L(t).current) :
                  Step(t, [L(t) EXCEPT !.pc = "clear_delete", !.next = n])
            /\ ub' = (ub \/ L(t).current \notin live)
    /\ SameHeap
    /\ UNCHANGED <<table_, count_>>
    /\ Ghosts /\ Buffer

\* clear_delete without the delete: the walk moves on and the node stays
\* allocated.
clear_delete_leak(t) ==
    /\ th[t].pc = "clear_delete"
    /\ SameHeap
    /\ UNCHANGED ub
    /\ Step(t, [L(t) EXCEPT !.pc = "clear_walk", !.current = L(t).next,
                            !.next = Null])
    /\ UNCHANGED <<table_, count_>>
    /\ Ghosts /\ Buffer

\* delete current; current = next; }
clear_delete(t) ==
    /\ th[t].pc = "clear_delete"
    /\ Free(L(t).current)
    /\ ub' = (ub \/ L(t).current \notin live)
    /\ Step(t, [L(t) EXCEPT !.pc = "clear_walk", !.current = L(t).next,
                            !.next = Null])
    /\ UNCHANGED <<table_, count_>>
    /\ Ghosts /\ Buffer


\* ------------------------------------------------------- buffer_t: the calls

IdleB == [pc |-> "idle", op |-> "none", item |-> 0, head |-> 0, tail |-> 0,
          next |-> 0, ret |-> NoRet, rval |-> 0,
          pre |-> [head |-> 0, tail |-> 0, data |-> [i \in Slots |-> 0]]]

B(r) == bth[r]

BStep(r, v) == bth' = [bth EXCEPT ![r] = v]

\* What a step of the ring buffer leaves alone.
Dict == UNCHANGED <<table_, count_, node_key, node_value, node_next, live,
                    th, ub, calls, hist, assigned, pre,
                    stack_count_, stack_data_, flag_, seq_, ath, alog,
                    ref, ref_path, ref0, rth, rlog>>

\* Reading slot i: its content once it was written, anything of type T
\* before (T data_[S] is not initialized).
ReadSlot(i) == IF data_[i] = 0 THEN Items ELSE {data_[i]}

\* A call of push(item), pull(item) or pop() starts; item is push's argument
\* and the caller's variable that pull writes to.
BEnter(r, o, x) ==
    /\ bth[r].pc = "idle"
    /\ Len(blog) < MaxBufCalls
    /\ \/ r = "producer" /\ o = "push"
       \/ r = "consumer" /\ o \in {"pull", "pop"}
    /\ BStep(r, [IdleB EXCEPT !.pc = IF o = "push" THEN "push_tail"
                                    ELSE IF o = "pull" THEN "pull_head"
                                    ELSE "pop_head",
                              !.op = o, !.item = x,
                              !.pre = [head |-> head_, tail |-> tail_,
                                       data |-> data_]])
    /\ UNCHANGED <<head_, tail_, data_, blog>>
    /\ Dict

\* The call returns to its caller.
BReturn(r) ==
    /\ bth[r].pc = "done"
    /\ blog' = Append(blog, [op |-> B(r).op, item |-> B(r).item,
                             ret |-> B(r).ret, rval |-> B(r).rval])
    /\ BStep(r, IdleB)
    /\ UNCHANGED <<head_, tail_, data_>>
    /\ Dict

\* ---- push

\* tail = tail_.load(); next = tail; if(++next >= S) next -= S;
push_tail(r) ==
    /\ bth[r].pc = "push_tail"
    /\ BStep(r, [B(r) EXCEPT !.pc = "push_head", !.tail = tail_,
                             !.next = IF tail_ + 1 >= BufS THEN tail_ + 1 - BufS
                                                           ELSE tail_ + 1])
    /\ UNCHANGED <<head_, tail_, data_, blog>>
    /\ Dict

\* push that compares tail, not next, with head.
push_head_late(r) ==
    /\ bth[r].pc = "push_head"
    /\ BStep(r, IF B(r).tail = head_
                THEN [B(r) EXCEPT !.pc = "done", !.head = head_, !.ret = "false"]
                ELSE [B(r) EXCEPT !.pc = "push_write", !.head = head_])
    /\ UNCHANGED <<head_, tail_, data_, blog>>
    /\ Dict

\* head = head_.load(); if(next == head) return false;
push_head(r) ==
    /\ bth[r].pc = "push_head"
    /\ BStep(r, IF B(r).next = head_
                THEN [B(r) EXCEPT !.pc = "done", !.head = head_, !.ret = "false"]
                ELSE [B(r) EXCEPT !.pc = "push_write", !.head = head_])
    /\ UNCHANGED <<head_, tail_, data_, blog>>
    /\ Dict

\* data_[tail] = item;
push_write(r) ==
    /\ bth[r].pc = "push_write"
    /\ data_' = [data_ EXCEPT ![B(r).tail] = B(r).item]
    /\ BStep(r, [B(r) EXCEPT !.pc = "push_store"])
    /\ UNCHANGED <<head_, tail_, blog>>
    /\ Dict

\* tail_.store(next); return true;
push_store(r) ==
    /\ bth[r].pc = "push_store"
    /\ tail_' = B(r).next
    /\ BStep(r, [B(r) EXCEPT !.pc = "done", !.ret = "true"])
    /\ UNCHANGED <<head_, data_, blog>>
    /\ Dict

\* ---- pull

\* head = head_.load();
pull_head(r) ==
    /\ bth[r].pc = "pull_head"
    /\ BStep(r, [B(r) EXCEPT !.pc = "pull_tail", !.head = head_])
    /\ UNCHANGED <<head_, tail_, data_, blog>>
    /\ Dict

\* pull that clears the caller's item when the buffer is empty.
pull_tail_clear(r) ==
    /\ bth[r].pc = "pull_tail"
    /\ BStep(r, IF B(r).head = tail_
                THEN [B(r) EXCEPT !.pc = "done", !.tail = tail_, !.ret = "false",
                                  !.item = 0]
                ELSE [B(r) EXCEPT !.pc = "pull_read", !.tail = tail_])
    /\ UNCHANGED <<head_, tail_, data_, blog>>
    /\ Dict

\* tail = tail_.load(); if(head == tail) return false;
pull_tail(r) ==
    /\ bth[r].pc = "pull_tail"
    /\ BStep(r, IF B(r).head = tail_
                THEN [B(r) EXCEPT !.pc = "done", !.tail = tail_, !.ret = "false"]
                ELSE [B(r) EXCEPT !.pc = "pull_read", !.tail = tail_])
    /\ UNCHANGED <<head_, tail_, data_, blog>>
    /\ Dict

\* item = data_[head]; if(++head >= S) head -= S;
pull_read(r) ==
    /\ bth[r].pc = "pull_read"
    /\ \E x \in ReadSlot(B(r).head) :
          BStep(r, [B(r) EXCEPT !.pc = "pull_store", !.item = x,
                                !.head = IF B(r).head + 1 >= BufS
                                         THEN B(r).head + 1 - BufS
                                         ELSE B(r).head + 1])
    /\ UNCHANGED <<head_, tail_, data_, blog>>
    /\ Dict

\* tail_.store(tail); return true;
pull_store(r) ==
    /\ bth[r].pc = "pull_store"
    /\ tail_' = B(r).tail
    /\ BStep(r, [B(r) EXCEPT !.pc = "done", !.ret = "true"])
    /\ UNCHANGED <<head_, data_, blog>>
    /\ Dict

\* ---- pop

\* head = head_.load();
pop_head(r) ==
    /\ bth[r].pc = "pop_head"
    /\ BStep(r, [B(r) EXCEPT !.pc = "pop_tail", !.head = head_])
    /\ UNCHANGED <<head_, tail_, data_, blog>>
    /\ Dict

\* tail = tail_.load(); if(head == tail) return {};
pop_tail(r) ==
    /\ bth[r].pc = "pop_tail"
    /\ BStep(r, IF B(r).head = tail_
                THEN [B(r) EXCEPT !.pc = "done", !.tail = tail_, !.ret = "nullopt"]
                ELSE [B(r) EXCEPT !.pc = "pop_read", !.tail = tail_])
    /\ UNCHANGED <<head_, tail_, data_, blog>>
    /\ Dict

\* auto item = data_[head]; if(++head >= S) head -= S;
pop_read(r) ==
    /\ bth[r].pc = "pop_read"
    /\ \E x \in ReadSlot(B(r).head) :
          BStep(r, [B(r) EXCEPT !.pc = "pop_store", !.item = x,
                                !.head = IF B(r).head + 1 >= BufS
                                         THEN B(r).head + 1 - BufS
                                         ELSE B(r).head + 1])
    /\ UNCHANGED <<head_, tail_, data_, blog>>
    /\ Dict

\* tail_.store(tail); return head;
pop_store(r) ==
    /\ bth[r].pc = "pop_store"
    /\ tail_' = B(r).tail
    /\ BStep(r, [B(r) EXCEPT !.pc = "done", !.ret = "value", !.rval = B(r).head])
    /\ UNCHANGED <<head_, data_, blog>>
    /\ Dict

\* buffer_t::empty and buffer_t::full on the current state
buffer_empty == head_ = tail_

buffer_full == (IF tail_ + 1 >= BufS THEN tail_ + 1 - BufS ELSE tail_ + 1) = head_

BQuiescent == \A r \in Roles : bth[r].pc = "idle"

\* ------------------------------- stack_t, once_t, sequence_t: the callers

IdleA == [pc |-> "idle", op |-> "none", item |-> 0, count |-> 0,
          ret |-> NoRet, rval |-> 0, c0 |-> 0]

A(t) == ath[t]

AStep(t, v) == ath' = [ath EXCEPT ![t] = v]

\* What a step of stack_t, once_t or sequence_t leaves alone.
Others == UNCHANGED <<table_, count_, node_key, node_value, node_next, live,
                      th, ub, calls, hist, assigned, pre,
                      head_, tail_, data_, bth, blog,
                      ref, ref_path, ref0, rth, rlog>>

StackOps == {"push", "pull", "pop"}
OnceOps == {"bool", "not", "reset"}
SeqOps == {"deref", "conv", "set", "assign"}

\* The first step of a call.
FirstA(o) ==
    CASE o = "push" -> "stack_push_add"
      [] o = "pull" -> "stack_pull_sub"
      [] o = "pop" -> "stack_pop_sub"
      [] o = "bool" -> "once_bool"
      [] o = "not" -> "once_not"
      [] o = "reset" -> "once_reset"
      [] o = "deref" -> "seq_deref"
      [] o = "conv" -> "seq_conv"
      [] o = "set" -> "seq_set"
      [] o = "assign" -> "seq_assign"

\* Thread t calls operation o; x is the argument of push, set and operator=,
\* and the caller's variable that pull writes to.
AEnter(t, o, x) ==
    /\ ath[t].pc = "idle"
    /\ Len(alog) < MaxPrimCalls
    /\ AStep(t, [IdleA EXCEPT !.pc = FirstA(o), !.op = o, !.item = x,
                              !.c0 = stack_count_])
    /\ UNCHANGED <<stack_count_, stack_data_, flag_, seq_, alog>>
    /\ Others

\* The call returns to its caller.  A call of stack_t enters the log here.
AReturn(t) ==
    /\ ath[t].pc = "done"
    /\ alog' = IF A(t).op \in StackOps
               THEN Append(alog, [t |-> t, op |-> A(t).op, item |-> A(t).item,
                                  ret |-> A(t).ret, rval |-> A(t).rval,
                                  count |-> A(t).count, c0 |-> A(t).c0,
                                  c1 |-> stack_count_])
               ELSE alog
    /\ AStep(t, IdleA)
    /\ UNCHANGED <<stack_count_, stack_data_, flag_, seq_>>
    /\ Others

AQuiescent == \A t \in Threads : ath[t].pc = "idle"

\* ------------------------------------------------------ stack_t: the calls

\* count >= S compares the int count with the std::size_t S: count is
\* converted to std::size_t, and a negative count becomes a huge number.
AtLeastS(c) == c < 0 \/ c >= StackS

\* Reading data_[i]: the slot's content once it was written; anything of
\* type T before (T data_[S] is not initialized) and outside the array.
ReadStack(i) == IF i \in StackSlots /\ stack_data_[i] # 0
                THEN {stack_data_[i]} ELSE Items

\* ---- push

\* const auto count = count_.fetch_add(1); if(count >= S) ...
stack_push_add(t) ==
    /\ ath[t].pc = "stack_push_add"
    /\ stack_count_' = stack_count_ + 1
    /\ AStep(t, [A(t) EXCEPT !.count = stack_count_,
                             !.pc = IF AtLeastS(stack_count_)
                                    THEN "stack_push_undo"
                                    ELSE "stack_push_write"])
    /\ UNCHANGED <<stack_data_, flag_, seq_, alog>>
    /\ Others

\* stack_t::push whose rollback is missing.
stack_push_undo_forgot(t) ==
    /\ ath[t].pc = "stack_push_undo"
    /\ AStep(t, [A(t) EXCEPT !.pc = "done", !.ret = "false"])
    /\ UNCHANGED <<stack_count_, stack_data_, flag_, seq_, alog>>
    /\ Others

\* count_.fetch_sub(1); return false;
stack_push_undo(t) ==
    /\ ath[t].pc = "stack_push_undo"
    /\ stack_count_' = stack_count_ - 1
    /\ AStep(t, [A(t) EXCEPT !.pc = "done", !.ret = "false"])
    /\ UNCHANGED <<stack_data_, flag_, seq_, alog>>
    /\ Others

\* data_[count] = item; return true;
stack_push_write(t) ==
    /\ ath[t].pc = "stack_push_write"
    /\ stack_data_' = [stack_data_ EXCEPT ![A(t).count] = A(t).item]
    /\ AStep(t, [A(t) EXCEPT !.pc = "done", !.ret = "true"])
    /\ UNCHANGED <<stack_count_, flag_, seq_, alog>>
    /\ Others

\* ---- pull

\* const auto count = count_.fetch_sub(1); if(count < 0) ...
stack_pull_sub(t) ==
    /\ ath[t].pc = "stack_pull_sub"
    /\ stack_count_' = stack_count_ - 1
    /\ AStep(t, [A(t) EXCEPT !.count = stack_count_,
                             !.pc = IF stack_count_ < 0
                                    THEN "stack_pull_undo"
                                    ELSE "stack_pull_read"])
    /\ UNCHANGED <<stack_data_, flag_, seq_, alog>>
    /\ Others

\* count_.fetch_add(1); return false;
stack_pull_undo(t) ==
    /\ ath[t].pc = "stack_pull_undo"
    /\ stack_count_' = stack_count_ + 1
    /\ AStep(t, [A(t) EXCEPT !.pc = "done", !.ret = "false"])
    /\ UNCHANGED <<stack_data_, flag_, seq_, alog>>
    /\ Others

\* item = data_[count]; return true;
stack_pull_read(t) ==
    /\ ath[t].pc = "stack_pull_read"
    /\ \E x \in ReadStack(A(t).count) :
          AStep(t, [A(t) EXCEPT !.pc = "done", !.item = x, !.ret = "true"])
    /\ UNCHANGED <<stack_count_, stack_data_, flag_, seq_, alog>>
    /\ Others

\* ---- pop

\* stack_t::pop that leaves count_ alone.
stack_pop_sub_keep(t) ==
    /\ ath[t].pc = "stack_pop_sub"
    /\ AStep(t, [A(t) EXCEPT !.count = stack_count_,
                             !.pc = IF stack_count_ < 0
                                    THEN "stack_pop_undo"
                                    ELSE "stack_pop_read"])
    /\ UNCHANGED <<stack_count_, stack_data_, flag_, seq_, alog>>
    /\ Others

\* const auto count = count_.fetch_sub(1); if(count < 0) ...
stack_pop_sub(t) ==
    /\ ath[t].pc = "stack_pop_sub"
    /\ stack_count_' = stack_count_ - 1
    /\ AStep(t, [A(t) EXCEPT !.count = stack_count_,
                             !.pc = IF stack_count_ < 0
                                    THEN "stack_pop_undo"
                                    ELSE "stack_pop_read"])
    /\ UNCHANGED <<stack_data_, flag_, seq_, alog>>
    /\ Others

\* count_.fetch_add(1); return {};
stack_pop_undo(t) ==
    /\ ath[t].pc = "stack_pop_undo"
    /\ stack_count_' = stack_count_ + 1
    /\ AStep(t, [A(t) EXCEPT !.pc = "done", !.ret = "nullopt"])
    /\ UNCHANGED <<stack_data_, flag_, seq_, alog>>
    /\ Others

\* return data_[count];
stack_pop_read(t) ==
    /\ ath[t].pc = "stack_pop_read"
    /\ \E x \in ReadStack(A(t).count) :
          AStep(t, [A(t) EXCEPT !.pc = "done", !.ret = "value", !.rval = x])
    /\ UNCHANGED <<stack_count_, stack_data_, flag_, seq_, alog>>
    /\ Others

\* stack_t::size, stack_t::empty and stack_t::full on the current state
stack_size == IF stack_count_ < 0 THEN 0
              ELSE IF stack_count_ > StackS THEN StackS
              ELSE stack_count_

stack_empty == stack_count_ < 1

\* (count_.load() >= S converts a negative count to a huge std::size_t)
stack_full == AtLeastS(stack_count_)

\* ------------------------------------------------------- once_t: the calls

\* The atomic access of a call of once_t or sequence_t, as the log keeps it:
\* r is the call's result, v the value returned or stored.
Access(t, r, v) == [t |-> t, op |-> A(t).op, item |-> A(t).item, ret |-> r,
                    rval |-> v, count |-> 0, c0 |-> 0, c1 |-> 0]

BoolStr(b) == IF b THEN "true" ELSE "false"

\* operator bool that reads the flag and leaves it set.
once_bool_load(t) ==
    /\ ath[t].pc = "once_bool"
    /\ alog' = Append(alog, Access(t, BoolStr(flag_), 0))
    /\ AStep(t, [A(t) EXCEPT !.pc = "done", !.ret = BoolStr(flag_)])
    /\ UNCHANGED <<stack_count_, stack_data_, flag_, seq_>>
    /\ Others

\* explicit operator bool: return flag_.exchange(false);
once_bool(t) ==
    /\ ath[t].pc = "once_bool"
    /\ flag_' = FALSE
    /\ alog' = Append(alog, Access(t, BoolStr(flag_), 0))
    /\ AStep(t, [A(t) EXCEPT !.pc = "done", !.ret = BoolStr(flag_)])
    /\ UNCHANGED <<stack_count_, stack_data_, seq_>>
    /\ Others

\* operator!: return !flag_.exchange(false);
once_not(t) ==
    /\ ath[t].pc = "once_not"
    /\ flag_' = FALSE
    /\ alog' = Append(alog, Access(t, BoolStr(~flag_), 0))
    /\ AStep(t, [A(t) EXCEPT !.pc = "done", !.ret = BoolStr(~flag_)])
    /\ UNCHANGED <<stack_count_, stack_data_, seq_>>
    /\ Others

\* reset that stores false.
once_reset_false(t) ==
    /\ ath[t].pc = "once_reset"
    /\ flag_' = FALSE
    /\ alog' = Append(alog, Access(t, "void", 0))
    /\ AStep(t, [A(t) EXCEPT !.pc = "done", !.ret = "void"])
    /\ UNCHANGED <<stack_count_, stack_data_, seq_>>
    /\ Others

\* reset: flag_.store(true);
once_reset(t) ==
    /\ ath[t].pc = "once_reset"
    /\ flag_' = TRUE
    /\ alog' = Append(alog, Access(t, "void", 0))
    /\ AStep(t, [A(t) EXCEPT !.pc = "done", !.ret = "void"])
    /\ UNCHANGED <<stack_count_, stack_data_, seq_>>
    /\ Others

\* --------------------------------------------------- sequence_t: the calls

\* seq_.fetch_add(1) on the unsigned T: the sum wraps at 2^SeqBits.
FetchAdd1(v) == (v + 1) % SeqMod

\* operator* that returns the incremented value.
seq_deref_incremented(t) ==
    /\ ath[t].pc = "seq_deref"
    /\ seq_' = FetchAdd1(seq_)
    /\ alog' = Append(alog, Access(t, "value", FetchAdd1(seq_)))
    /\ AStep(t, [A(t) EXCEPT !.pc = "done", !.ret = "value",
                             !.rval = FetchAdd1(seq_)])
    /\ UNCHANGED <<stack_count_, stack_data_, flag_>>
    /\ Others

\* operator*: return seq_.fetch_add(1);
seq_deref(t) ==
    /\ ath[t].pc = "seq_deref"
    /\ seq_' = FetchAdd1(seq_)
    /\ alog' = Append(alog, Access(t, "value", seq_))
    /\ AStep(t, [A(t) EXCEPT !.pc = "done", !.ret = "value", !.rval = seq_])
    /\ UNCHANGED <<stack_count_, stack_data_, flag_>>
    /\ Others

\* operator T that adds 2.
seq_conv_add2(t) ==
    /\ ath[t].pc = "seq_conv"
    /\ seq_' = (seq_ + 2) % SeqMod
    /\ alog' = Append(alog, Access(t, "value", seq_))
    /\ AStep(t, [A(t) EXCEPT !.pc = "done", !.ret = "value", !.rval = seq_])
    /\ UNCHANGED <<stack_count_, stack_data_, flag_>>
    /\ Others

\* operator T that loads the counter and leaves it alone.
seq_conv_load(t) ==
    /\ ath[t].pc = "seq_conv"
    /\ alog' = Append(alog, Access(t, "value", seq_))
    /\ AStep(t, [A(t) EXCEPT !.pc = "done", !.ret = "value", !.rval = seq_])
    /\ UNCHANGED <<stack_count_, stack_data_, flag_, seq_>>
    /\ Others

\* operator T: return seq_.fetch_add(1);
seq_conv(t) ==
    /\ ath[t].pc = "seq_conv"
    /\ seq_' = FetchAdd1(seq_)
    /\ alog' = Append(alog, Access(t, "value", seq_))
    /\ AStep(t, [A(t) EXCEPT !.pc = "done", !.ret = "value", !.rval = seq_])
    /\ UNCHANGED <<stack_count_, stack_data_, flag_>>
    /\ Others

\* set(v) that stores v + 1.
seq_set_incremented(t) ==
    /\ ath[t].pc = "seq_set"
    /\ seq_' = (A(t).item + 1) % SeqMod
    /\ alog' = Append(alog, Access(t, "void", A(t).item))
    /\ AStep(t, [A(t) EXCEPT !.pc = "done", !.ret = "void"])
    /\ UNCHANGED <<stack_count_, stack_data_, flag_>>
    /\ Others

\* set(v): seq_.store(v);
seq_set(t) ==
    /\ ath[t].pc = "seq_set"
    /\ seq_' = A(t).item
    /\ alog' = Append(alog, Access(t, "void", A(t).item))
    /\ AStep(t, [A(t) EXCEPT !.pc = "done", !.ret = "void"])
    /\ UNCHANGED <<stack_count_, stack_data_, flag_>>
    /\ Others

\* operator=(const T v): seq_.store(v); return *this;
seq_assign(t) ==
    /\ ath[t].pc = "seq_assign"
    /\ seq_' = A(t).item
    /\ alog' = Append(alog, Access(t, "void", A(t).item))
    /\ AStep(t, [A(t) EXCEPT !.pc = "done", !.ret = "void"])
    /\ UNCHANGED <<stack_count_, stack_data_, flag_>>
    /\ Others

\* --------------------------------------------------- atomic_ref: the calls

\* No store made by the call yet.
NoStore == -1

\* expected and value are the parameters (value is also the arg of fetch_add
\* and fetch_sub), old and sum the locals of the plain branch; given keeps
\* the expected passed in, replaced the content of ref that the call's
\* store overwrote.
IdleR == [pc |-> "idle", op |-> "none", expected |-> 0, value |-> 0,
          old |-> 0, sum |-> 0, ret |-> NoRet, rval |-> 0,
          given |-> 0, replaced |-> NoStore]

R(t) == rth[t]

RStep(t, v) == rth' = [rth EXCEPT ![t] = v]

\* What a step of atomic_ref leaves alone.
NotRef == UNCHANGED <<table_, count_, node_key, node_value, node_next, live,
                      th, ub, calls, hist, assigned, pre,
                      head_, tail_, data_, bth, blog,
                      stack_count_, stack_data_, flag_, seq_, ath, alog>>

RefOps == {"load", "store", "exchange", "compare_exchange_strong",
           "fetch_add", "fetch_sub"}

\* The branches of the member functions: "atomic" is the __atomic builtin of
\* the #else branch and the _Interlocked intrinsic of the 4- and 8-byte
\* branches, "plain" the fallback compiled under _MSC_VER for 1- and 2-byte T.
RefPaths == {"atomic", "plain"}

\* T value = x; and the handles atomic_ref<T>(value) of the threads
RefBind(p, x) ==
    /\ ref_path = "unbound"
    /\ ref_path' = p
    /\ ref' = x
    /\ ref0' = x
    /\ UNCHANGED <<rth, rlog>>
    /\ NotRef

\* The operators that are calls of fetch_add and of fetch_sub: operator++()
\* and operator++(int) are fetch_add(1), operator+= is fetch_add(value), and
\* likewise operator--(), operator--(int) and operator-= with fetch_sub.
IncOps == {"pre_inc", "post_inc"}
DecOps == {"pre_dec", "post_dec"}
AddOps == {"fetch_add", "add_assign"} \cup IncOps
SubOps == {"fetch_sub", "sub_assign"} \cup DecOps
RmwOps == AddOps \cup SubOps

\* What the operator returns when its fetch_add or fetch_sub returned v:
\* fetch_add(1) + 1 and fetch_sub(1) - 1 for the prefix operators (a sum of
\* ints for a T narrower than int: it does not wrap to the width of T), v for
\* the postfix operators, *this for the compound assignments.
OpRet(o, r) == IF o \in {"add_assign", "sub_assign"} THEN "self" ELSE r
OpVal(o, v) == CASE o = "pre_inc" -> v + 1
                 [] o = "pre_dec" -> v - 1
                 [] o \in {"add_assign", "sub_assign"} -> 0
                 [] OTHER -> v

\* The first step of a call in the branch compiled.
FirstR(o) ==
    CASE o = "load" -> "ref_load"
      [] o = "store" -> "ref_store"
      [] o = "exchange" ->
            IF ref_path = "atomic" THEN "ref_exchange" ELSE "ref_exchange_old"
      [] o = "compare_exchange_strong" ->
            IF ref_path = "atomic" THEN "ref_cas" ELSE "ref_cas_test"
      [] o \in AddOps ->
            IF ref_path = "atomic" THEN "ref_fetch_add" ELSE "ref_fetch_add_old"
      [] o \in SubOps ->
            IF ref_path = "atomic" THEN "ref_fetch_sub" ELSE "ref_fetch_sub_old"

\* Thread t calls operation o with the arguments expected = e and value = v.
REnter(t, o, e, v) ==
    /\ ref_path # "unbound"
    /\ rth[t].pc = "idle"
    /\ Len(rlog) < MaxRefCalls
    /\ RStep(t, [IdleR EXCEPT !.pc = FirstR(o), !.op = o, !.expected = e,
                              !.value = v, !.given = e])
    /\ UNCHANGED <<ref, ref_path, ref0, rlog>>
    /\ NotRef

\* The call returns to its caller.
RReturn(t) ==
    /\ rth[t].pc = "done"
    /\ rlog' = Append(rlog, [t |-> t, op |-> R(t).op, given |-> R(t).given,
                             value |-> R(t).value, ret |-> R(t).ret,
                             rval |-> R(t).rval, expected |-> R(t).expected,
                             replaced |-> R(t).replaced])
    /\ RStep(t, IdleR)
    /\ UNCHANGED <<ref, ref_path, ref0>>
    /\ NotRef

\* The call of t has its result r, v.
RDone(t, r, v) == [R(t) EXCEPT !.pc = "done", !.ret = OpRet(R(t).op, r),
                                !.rval = OpVal(R(t).op, v)]

\* load: return __atomic_load_n(&ref) / _InterlockedOr(&ref, 0) / ref;
ref_load(t) ==
    /\ rth[t].pc = "ref_load"
    /\ RStep(t, RDone(t, "value", ref))
    /\ UNCHANGED <<ref, ref_path, ref0, rlog>>
    /\ NotRef

\* store: __atomic_store_n(&ref, value) / _InterlockedExchange / ref = value;
ref_store(t) ==
    /\ rth[t].pc = "ref_store"
    /\ ref' = R(t).value
    /\ RStep(t, [RDone(t, "void", 0) EXCEPT !.replaced = ref])
    /\ UNCHANGED <<ref_path, ref0, rlog>>
    /\ NotRef

\* exchange: return __atomic_exchange_n(&ref, value) / _InterlockedExchange
ref_exchange(t) ==
    /\ rth[t].pc = "ref_exchange"
    /\ ref' = R(t).value
    /\ RStep(t, [RDone(t, "value", ref) EXCEPT !.replaced = ref])
    /\ UNCHANGED <<ref_path, ref0, rlog>>
    /\ NotRef

\* exchange, plain: T old = ref;
ref_exchange_old(t) ==
    /\ rth[t].pc = "ref_exchange_old"
    /\ RStep(t, [R(t) EXCEPT !.pc = "ref_exchange_set", !.old = ref])
    /\ UNCHANGED <<ref, ref_path, ref0, rlog>>
    /\ NotRef

\* exchange, plain: ref = value; return old;
ref_exchange_set(t) ==
    /\ rth[t].pc = "ref_exchange_set"
    /\ ref' = R(t).value
    /\ RStep(t, [RDone(t, "value", R(t).old) EXCEPT !.replaced = ref])
    /\ UNCHANGED <<ref_path, ref0, rlog>>
    /\ NotRef

\* compare_exchange_strong: __atomic_compare_exchange_n(&ref, &expected,
\* value, false) / original = _InterlockedCompareExchange(&ref, value,
\* expected); if(original == expected) return true; expected = original;
\* return false;
ref_cas(t) ==
    /\ rth[t].pc = "ref_cas"
    /\ IF ref = R(t).expected
       THEN /\ ref' = R(t).value
            /\ RStep(t, [RDone(t, "true", 0) EXCEPT !.replaced = ref])
       ELSE /\ ref' = ref
            /\ RStep(t, [RDone(t, "false", 0) EXCEPT !.expected = ref])
    /\ UNCHANGED <<ref_path, ref0, rlog>>
    /\ NotRef

\* compare_exchange_strong, plain: if(ref == expected)
ref_cas_test(t) ==
    /\ rth[t].pc = "ref_cas_test"
    /\ RStep(t, [R(t) EXCEPT !.pc = IF ref = R(t).expected
                                    THEN "ref_cas_set" ELSE "ref_cas_reload"])
    /\ UNCHANGED <<ref, ref_path, ref0, rlog>>
    /\ NotRef

\* compare_exchange_strong, plain: ref = value; return true;
ref_cas_set(t) ==
    /\ rth[t].pc = "ref_cas_set"
    /\ ref' = R(t).value
    /\ RStep(t, [RDone(t, "true", 0) EXCEPT !.replaced = ref])
    /\ UNCHANGED <<ref_path, ref0, rlog>>
    /\ NotRef

\* compare_exchange_strong, plain: expected = ref; return false;
ref_cas_reload(t) ==
    /\ rth[t].pc = "ref_cas_reload"
    /\ RStep(t, [RDone(t, "false", 0) EXCEPT !.expected = ref])
    /\ UNCHANGED <<ref, ref_path, ref0, rlog>>
    /\ NotRef

\* The sum and the difference in the w-bit type T.
RefAdd(a, b) == (a + b) % RefMod
RefSub(a, b) == (a - b + RefMod) % RefMod

\* fetch_add: return __atomic_fetch_add(&ref, arg) / _InterlockedExchangeAdd
ref_fetch_add(t) ==
    /\ rth[t].pc = "ref_fetch_add"
    /\ ref' = RefAdd(ref, R(t).value)
    /\ RStep(t, [RDone(t, "value", ref) EXCEPT !.replaced = ref])
    /\ UNCHANGED <<ref_path, ref0, rlog>>
    /\ NotRef

\* fetch_add, plain: T old = ref;
ref_fetch_add_old(t) ==
    /\ rth[t].pc = "ref_fetch_add_old"
    /\ RStep(t, [R(t) EXCEPT !.pc = "ref_fetch_add_sum", !.old = ref])
    /\ UNCHANGED <<ref, ref_path, ref0, rlog>>
    /\ NotRef

\* fetch_add, plain: ref += arg; (the read of ref and the addition)
ref_fetch_add_sum(t) ==
    /\ rth[t].pc = "ref_fetch_add_sum"
    /\ RStep(t, [R(t) EXCEPT !.pc = "ref_fetch_add_set",
                             !.sum = RefAdd(ref, R(t).value)])
    /\ UNCHANGED <<ref, ref_path, ref0, rlog>>
    /\ NotRef

\* fetch_add, plain: ref += arg; (the write of ref) return old;
ref_fetch_add_set(t) ==
    /\ rth[t].pc = "ref_fetch_add_set"
    /\ ref' = R(t).sum
    /\ RStep(t, [RDone(t, "value", R(t).old) EXCEPT !.replaced = ref])
    /\ UNCHANGED <<ref_path, ref0, rlog>>
    /\ NotRef

\* fetch_sub: return __atomic_fetch_sub(&ref, arg) /
\* _InterlockedExchangeAdd(&ref, -arg)
ref_fetch_sub(t) ==
    /\ rth[t].pc = "ref_fetch_sub"
    /\ ref' = RefSub(ref, R(t).value)
    /\ RStep(t, [RDone(t, "value", ref) EXCEPT !.replaced = ref])
    /\ UNCHANGED <<ref_path, ref0, rlog>>
    /\ NotRef

\* fetch_sub, plain: T old = ref;
ref_fetch_sub_old(t) ==
    /\ rth[t].pc = "ref_fetch_sub_old"
    /\ RStep(t, [R(t) EXCEPT !.pc = "ref_fetch_sub_sum", !.old = ref])
    /\ UNCHANGED <<ref, ref_path, ref0, rlog>>
    /\ NotRef

\* fetch_sub, plain: ref -= arg; (the read of ref and the subtraction)
ref_fetch_sub_sum(t) ==
    /\ rth[t].pc = "ref_fetch_sub_sum"
    /\ RStep(t, [R(t) EXCEPT !.pc = "ref_fetch_sub_set",
                             !.sum = RefSub(ref, R(t).value)])
    /\ UNCHANGED <<ref, ref_path, ref0, rlog>>
    /\ NotRef

\* fetch_sub, plain: ref -= arg; (the write of ref) return old;
ref_fetch_sub_set(t) ==
    /\ rth[t].pc = "ref_fetch_sub_set"
    /\ ref' = R(t).sum
    /\ RStep(t, [RDone(t, "value", R(t).old) EXCEPT !.replaced = ref])
    /\ UNCHANGED <<ref_path, ref0, rlog>>
    /\ NotRef

RQuiescent == \A t \in Threads : rth[t].pc = "idle"

\* ------------------------------------------------------- the specifications

Init ==
    /\ table_ = [b \in Buckets |-> Null]
    /\ count_ = 0
    /\ node_key = [n \in Nodes |-> 0]
    /\ node_value = [n \in Nodes |-> 0]
    /\ node_next = [n \in Nodes |-> Null]
    /\ live = {}
    /\ th = [t \in Threads |-> IdleT]
    /\ ub = FALSE
    /\ calls = 0
    /\ hist = "ioa"
    /\ assigned = [k \in Keys |-> NullOpt]
    /\ pre = <<>>
    /\ head_ = 0
    /\ tail_ = 0
    /\ data_ = [i \in Slots |-> 0]
    /\ bth = [r \in Roles |-> IdleB]
    /\ blog = <<>>
    /\ stack_count_ = 0
    /\ stack_data_ = [i \in StackSlots |-> 0]
    /\ flag_ = TRUE
    /\ seq_ = 0
    /\ ath = [t \in Threads |-> IdleA]
    /\ alog = <<>>
    /\ ref = 0
    /\ ref_path = "unbound"
    /\ ref0 = 0
    /\ rth = [t \in Threads |-> IdleR]
    /\ rlog = <<>>

\* SpecSeq keeps, in hist, how the dictionary was used so far: "ioa" while
\* only insert_or_assign and the lookups were called, "uniq" while no call
\* could have stored a key twice, "any" otherwise.
NextHist(o, k, mk) ==
    CASE o \in {"find", "contains", "at", "insert_or_assign"} -> hist
      [] o \in {"remove", "clear"} -> IF hist = "ioa" THEN "uniq" ELSE hist
      [] o \in {"insert", "emplace"} ->
            IF contains(k) THEN "any" ELSE IF hist = "ioa" THEN "uniq" ELSE hist
      [] OTHER -> IF mk # k THEN "any" ELSE IF hist = "ioa" THEN "uniq" ELSE hist

SeqGhosts(o, k, v, mk) ==
    /\ pre' = <<Snapshot>>
    /\ hist' = NextHist(o, k, mk)
    /\ assigned' = IF NextHist(o, k, mk) # "ioa" THEN [x \in Keys |-> NullOpt]
                   ELSE IF o = "insert_or_assign" THEN [assigned EXCEPT ![k] = v]
                   ELSE assigned
    /\ UNCHANGED calls

\* One call at a time, by one thread.
SeqEnter(o, k, v, mk) ==
    /\ Quiescent
    /\ Enter(1, o, k, v, mk)
    /\ SeqGhosts(o, k, v, mk)
    /\ Buffer

SeqEnterPlain(o, k) ==
    /\ Quiescent
    /\ o = "clear" => k = 0
    /\ EnterPlain(1, o, k)
    /\ SeqGhosts(o, k, 0, k)
    /\ Buffer

\* Idle threads are interchangeable: the lowest of them makes the next call.
LowestIdle(t) == \A u \in Threads : u < t => th[u].pc # "idle"

\* Concurrent insert of keys nobody has inserted.
InsEnter(t, k, v) ==
    /\ assigned[k] = NullOpt
    /\ LowestIdle(t)
    /\ Enter(t, "insert", k, v, k)
    /\ assigned' = [assigned EXCEPT ![k] = v]
    /\ UNCHANGED <<calls, hist, pre>>
    /\ Buffer

\* Any calls, concurrently.  Each thread passes a value of its own, so that
\* the values of two threads' calls can be told apart.
ConcEnter(t, o, k, v, mk) ==
    /\ calls < MaxCalls
    /\ LowestIdle(t)
    /\ v = ((t - 1) % MaxVal) + 1
    /\ Enter(t, o, k, v, mk)
    /\ calls' = calls + 1
    /\ UNCHANGED <<hist, assigned, pre>>
    /\ Buffer

ConcEnterPlain(t, o, k) ==
    /\ calls < MaxCalls
    /\ LowestIdle(t)
    /\ o = "clear" => k = 0
    /\ EnterPlain(t, o, k)
    /\ calls' = calls + 1
    /\ UNCHANGED <<hist, assigned, pre>>
    /\ Buffer

Ops == {"insert", "insert_or_assign", "emplace", "try_emplace"}
PlainOps == {"find", "contains", "at", "remove", "clear"}

DictStep(t) ==
    \/ insert_load(t) \/ insert_cas(t) \/ insert_count(t)
    \/ ioa_load(t) \/ ioa_test(t) \/ ioa_assign(t) \/ ioa_next(t)
    \/ emplace_load(t) \/ emplace_cas(t) \/ emplace_count(t)
    \/ te_load(t) \/ te_test(t) \/ te_next(t) \/ te_emplace(t) \/ te_delete(t)
    \/ find_load(t) \/ find_test(t) \/ find_next(t)
    \/ contains_load(t) \/ contains_test(t) \/ contains_next(t)
    \/ at_load(t) \/ at_test(t) \/ at_next(t)
    \/ remove_load(t) \/ remove_test(t) \/ remove_next(t) \/ remove_unlink(t)
    \/ remove_delete(t) \/ remove_count(t) \/ remove_advance(t)
    \/ clear_xchg(t) \/ clear_walk(t) \/ clear_delete(t)
    \/ Return(t)

NextSeq ==
    \/ \E o \in Ops, k \in Keys, v \in Vals, mk \in Keys : SeqEnter(o, k, v, mk)
    \/ \E o \in PlainOps, k \in Keys : SeqEnterPlain(o, k)
    \/ DictStep(1)

SpecSeq == Init /\ [][NextSeq]_vars

NextIns ==
    \/ \E t \in Threads, k \in Keys, v \in Vals : InsEnter(t, k, v)
    \/ \E t \in Threads : insert_load(t) \/ insert_cas(t) \/ insert_count(t) \/ Return(t)

SpecIns == Init /\ [][NextIns]_vars

NextConc ==
    \/ \E t \in Threads, o \in Ops, k \in Keys, v \in Vals, mk \in Keys :
          ConcEnter(t, o, k, v, mk)
    \/ \E t \in Threads, o \in PlainOps, k \in Keys : ConcEnterPlain(t, o, k)
    \/ \E t \in Threads : DictStep(t)

SpecConc == Init /\ [][NextConc]_vars

\* One ring buffer call at a time.
BufStep(r) ==
    \/ push_tail(r) \/ push_head(r) \/ push_write(r) \/ push_store(r)
    \/ pull_head(r) \/ pull_tail(r) \/ pull_read(r) \/ pull_store(r)
    \/ pop_head(r) \/ pop_tail(r) \/ pop_read(r) \/ pop_store(r)
    \/ BReturn(r)

NextBuf ==
    \/ \E r \in Roles, o \in {"push", "pull", "pop"}, x \in Items :
          /\ BQuiescent
          /\ o # "push" => x = 1
          /\ BEnter(r, o, x)
    \/ \E r \in Roles : BufStep(r)

SpecBuf == Init /\ [][NextBuf]_vars

\* One producer and one consumer of the ring buffer, concurrently.
NextSpsc ==
    \/ \E r \in Roles, o \in {"push", "pull", "pop"}, x \in Items :
          /\ o # "push" => x = 1
          /\ BEnter(r, o, x)
    \/ \E r \in Roles : BufStep(r)

SpecSpsc == Init /\ [][NextSpsc]_vars

\* Idle callers are interchangeable: the lowest of them makes the next call.
LowestIdleA(t) == \A u \in Threads : u < t => ath[u].pc # "idle"

StackStep(t) ==
    \/ stack_push_add(t) \/ stack_push_undo(t) \/ stack_push_write(t)
    \/ stack_pull_sub(t) \/ stack_pull_undo(t) \/ stack_pull_read(t)
    \/ stack_pop_sub(t) \/ stack_pop_undo(t) \/ stack_pop_read(t)
    \/ AReturn(t)

\* One stack call at a time.
NextStack ==
    \/ \E o \in StackOps, x \in Items :
          /\ AQuiescent
          /\ o # "push" => x = 1
          /\ AEnter(1, o, x)
    \/ StackStep(1)

SpecStack == Init /\ [][NextStack]_vars

\* Stack calls of several threads, concurrently.  Each thread pushes an item
\* of its own, so that the items of two threads can be told apart.
NextStackConc ==
    \/ \E t \in Threads, o \in StackOps, x \in Items :
          /\ LowestIdleA(t)
          /\ Len(alog) < MaxRaceCalls
          /\ x = IF o = "push" THEN ((t - 1) % MaxItem) + 1 ELSE 1
          /\ AEnter(t, o, x)
    \/ \E t \in Threads : StackStep(t)

SpecStackConc == Init /\ [][NextStackConc]_vars

OnceStep(t) == once_bool(t) \/ once_not(t) \/ once_reset(t) \/ AReturn(t)

\* Checks and resets of one gate by several threads, concurrently.
NextOnce ==
    \/ \E t \in Threads, o \in OnceOps : LowestIdleA(t) /\ AEnter(t, o, 0)
    \/ \E t \in Threads : OnceStep(t)

SpecOnce == Init /\ [][NextOnce]_vars

CounterStep(t) ==
    \/ seq_deref(t) \/ seq_conv(t) \/ seq_set(t) \/ seq_assign(t) \/ AReturn(t)

\* The argument of a call of sequence_t.
CounterArg(o, x) == o \in {"deref", "conv"} => x = 0

\* Reads and stores of one sequence_t by a single thread.
NextCounter ==
    \/ \E o \in SeqOps, x \in SeqVals :
          /\ AQuiescent
          /\ CounterArg(o, x)
          /\ AEnter(1, o, x)
    \/ CounterStep(1)

SpecCounter == Init /\ [][NextCounter]_vars

\* One sequence_t is seeded by a store, then read by several threads
\* concurrently.
NextCounterConc ==
    \/ \E t \in Threads, o \in SeqOps, x \in SeqVals :
          /\ LowestIdleA(t)
          /\ CounterArg(o, x)
          /\ IF o \in {"set", "assign"}
             THEN AQuiescent /\ alog = <<>>
             ELSE \A u \in Threads : ath[u].pc \notin {"seq_set", "seq_assign"}
          /\ AEnter(t, o, x)
    \/ \E t \in Threads : CounterStep(t)

SpecCounterConc == Init /\ [][NextCounterConc]_vars

RefStep(t) ==
    \/ ref_load(t) \/ ref_store(t)
    \/ ref_exchange(t) \/ ref_exchange_old(t) \/ ref_exchange_set(t)
    \/ ref_cas(t) \/ ref_cas_test(t) \/ ref_cas_set(t) \/ ref_cas_reload(t)
    \/ ref_fetch_add(t) \/ ref_fetch_add_old(t) \/ ref_fetch_add_sum(t)
    \/ ref_fetch_add_set(t)
    \/ ref_fetch_sub(t) \/ ref_fetch_sub_old(t) \/ ref_fetch_sub_sum(t)
    \/ ref_fetch_sub_set(t)
    \/ RReturn(t)

\* Idle callers are interchangeable: the lowest of them makes the next call.
LowestIdleR(t) == \A u \in Threads : u < t => rth[u].pc # "idle"

\* The arguments a call takes: expected for compare_exchange_strong only,
\* value for every call but load.
RefArgs(o, e, v) ==
    /\ o # "compare_exchange_strong" => e = 0
    /\ o = "load" => v = 0

\* The threads' calls through atomic_ref handles of one location,
\* concurrently, in one of the branches compiled.
NextRef ==
    \/ \E p \in RefPaths, x \in RefVals : RefBind(p, x)
    \/ \E t \in Threads, o \in RefOps, e \in RefVals, v \in RefVals :
          /\ LowestIdleR(t)
          /\ RefArgs(o, e, v)
          /\ REnter(t, o, e, v)
    \/ \E t \in Threads : RefStep(t)

SpecRef == Init /\ [][NextRef]_vars

\* The steps of fetch_add and fetch_sub.
RmwStep(t) ==
    \/ ref_fetch_add(t) \/ ref_fetch_add_old(t) \/ ref_fetch_add_sum(t)
    \/ ref_fetch_add_set(t)
    \/ ref_fetch_sub(t) \/ ref_fetch_sub_old(t) \/ ref_fetch_sub_sum(t)
    \/ ref_fetch_sub_set(t)
    \/ RReturn(t)

\* The argument of a read-modify-write call: 1 is what the increment and
\* decrement operators pass.
RmwArgs(o, v) == o \in IncOps \cup DecOps => v = 1

\* The threads' fetch_add, fetch_sub, ++, --, += and -= through atomic_ref
\* handles of one location, concurrently, in one of the branches compiled.
NextRmw ==
    \/ \E p \in RefPaths, x \in RefVals : RefBind(p, x)
    \/ \E t \in Threads, o \in RmwOps, v \in RefVals :
          /\ LowestIdleR(t)
          /\ RmwArgs(o, v)
          /\ REnter(t, o, 0, v)
    \/ \E t \in Threads : RmwStep(t)

SpecRmw == Init /\ [][NextRmw]_vars


\* ------------------------------------------------------------- the claims

\* The call of thread 1 that has just returned in SpecSeq, and the
\* dictionary as it was when the call started.
Returned(o) == th[1].pc = "done" /\ th[1].op = o /\ Len(pre) = 1

Before == pre[1]

\* The nodes of the bucket of key k that hold k, in dictionary state s.
Holding(s, k) == {n \in Range(ChainIn(s, key_index(k))) : s.key[n] = k}

Used == {k \in Keys : assigned[k] # NullOpt}

\* C1: when threads insert pairwise distinct keys concurrently, once every
\* insert has returned the table holds one reachable node per inserted key,
\* size() is their number, and find(k) is the value inserted for k.
C1_ConcurrentInsertKeepsAll ==
    Quiescent =>
        /\ Cardinality(Reachable) = Cardinality(Used)
        /\ Entries = Cardinality(Used)
        /\ size = Cardinality(Used)
        /\ \A k \in Used : find(k) = assigned[k] /\ Cardinality(Holding(Snapshot, k)) = 1
        /\ \A k \in Keys \ Used : ~contains(k)

\* Every key has been inserted, by more than one thread's calls sharing a
\* bucket, and all calls have returned.
C1_Witness ==
    /\ Quiescent
    /\ Used = Keys
    /\ \E b \in Buckets : Len(Chain(b)) >= 2

\* C2: after any sequence of insert_or_assign calls on an empty dictionary,
\* find(k) is the value of the last call made with k, and each key used is
\* held by exactly one reachable node.
C2_InsertOrAssignLastWins ==
    /\ (Quiescent /\ hist = "ioa") =>
          /\ \A k \in Used : find(k) = assigned[k] /\ Cardinality(Holding(Snapshot, k)) = 1
          /\ \A k \in Keys \ Used : ~contains(k)
          /\ Entries = Cardinality(Used)
          /\ Cardinality(Reachable) = Cardinality(Used)
    /\ (Returned("find") /\ hist = "ioa" /\ th[1].key \in Used) =>
          th[1].ret = "value" /\ th[1].rval = assigned[th[1].key]

\* insert_or_assign has just replaced the value of a key that was present
\* with another value, in a bucket that holds a second key.
C2_Witness ==
    /\ Returned("insert_or_assign")
    /\ hist = "ioa"
    /\ ContainsIn(Before, th[1].key)
    /\ FindIn(Before, th[1].key) # th[1].val
    /\ Len(Chain(key_index(th[1].key))) >= 2

\* C3: try_emplace(k, v) returns false and leaves k's value, the chains and
\* size() unchanged when k is present; when k is absent it returns true,
\* size() grows by one and find(k) = v.
C3_TryEmplace ==
    Returned("try_emplace") =>
        IF ContainsIn(Before, th[1].key)
        THEN /\ th[1].ret = "false"
             /\ find(th[1].key) = FindIn(Before, th[1].key)
             /\ \A b \in Buckets : Chain(b) = ChainIn(Before, b)
             /\ size = Before.count
        ELSE /\ th[1].ret = "true"
             /\ size = Before.count + 1
             /\ find(th[1].key) = th[1].val

\* C4 as claimed: in every state reachable by the public operations,
\* remove(k) followed by contains(k) yields false.
C4_RemoveThenContains ==
    Returned("remove") => ~contains(th[1].key)

\* C4 as amended: remove(k) followed by contains(k) yields false when at
\* most one node held k when remove was called.
C4_RemoveThenContainsUnique ==
    (Returned("remove") /\ Cardinality(Holding(Before, th[1].key)) <= 1) =>
        ~contains(th[1].key)

\* remove has unlinked the only node of its key from behind another node.
C4_Witness ==
    /\ Returned("remove")
    /\ th[1].ret = "true"
    /\ Cardinality(Holding(Before, th[1].key)) = 1
    /\ Before.key[Before.table[key_index(th[1].key)]] # th[1].key

\* C5: remove(k) of an absent key returns false and changes no chain, no
\* value and not the count; remove(k) of a present key returns true and
\* size() is one less.
C5_RemoveResult ==
    Returned("remove") =>
        IF ContainsIn(Before, th[1].key)
        THEN th[1].ret = "true" /\ size = Before.count - 1
                                /\ Entries = EntriesFrom(Before, 0) - 1
        ELSE th[1].ret = "false" /\ Snapshot = Before

\* remove has returned false for a key that is absent from a bucket that
\* holds other keys.
C5_Witness ==
    /\ Returned("remove")
    /\ th[1].ret = "false"
    /\ ~ContainsIn(Before, th[1].key)
    /\ Len(ChainIn(Before, key_index(th[1].key))) >= 1

\* C6: at(k) of an absent key fails with out_of_range and changes nothing;
\* at(k) of a present key returns what find(k) returns; find and contains
\* never fail and report absence as nullopt and false.
C6_AtAndFind ==
    /\ Returned("at") =>
          /\ Snapshot = Before
          /\ IF ContainsIn(Before, th[1].key)
             THEN th[1].ret = "value" /\ th[1].rval = find(th[1].key)
             ELSE th[1].ret = OutOfRange
    /\ Returned("find") =>
          /\ Snapshot = Before
          /\ IF contains(th[1].key)
             THEN th[1].ret = "value" /\ th[1].rval = find(th[1].key)
             ELSE th[1].ret = "nullopt"
    /\ Returned("contains") =>
          /\ Snapshot = Before
          /\ th[1].ret = IF contains(th[1].key) THEN "true" ELSE "false"

\* at has failed for a key that is absent from a bucket that holds other
\* keys.
C6_Witness ==
    /\ Returned("at")
    /\ th[1].ret = OutOfRange
    /\ Len(Chain(key_index(th[1].key))) >= 1

KeysUnique ==
    /\ \A m, n \in Reachable : m # n => node_key[m] # node_key[n]
    /\ Entries = Cardinality(Reachable)

C8_CountMatchesReachable ==
    Quiescent => size = Cardinality(Reachable)


\* The ring buffer call that has just returned.
BReturned(r, o) == bth[r].pc = "done" /\ bth[r].op = o

\* The first n calls of the log are pushes.
PushesFirst(n) == Len(blog) >= n /\ \A i \in 1..n : blog[i].op = "push"

\* Call i of the log took an item out.
Consumed(i) == \/ blog[i].op = "pull" /\ blog[i].ret = "true"
               \/ blog[i].op = "pop" /\ blog[i].ret = "value"

\* C9: on an empty ring buffer the first S-1 pushes return true, and the
\* S-th returns false and changes neither head, tail nor any slot.
C9_PushUntilFull ==
    \A r \in Roles :
        (BReturned(r, "push") /\ PushesFirst(Len(blog)) /\ Len(blog) < BufS) =>
            /\ bth[r].ret = IF Len(blog) < BufS - 1 THEN "true" ELSE "false"
            /\ bth[r].ret = "false" =>
                  /\ head_ = bth[r].pre.head
                  /\ tail_ = bth[r].pre.tail
                  /\ data_ = bth[r].pre.data

\* The S-th push on an empty buffer has returned false.
C9_Witness ==
    \E r \in Roles :
        /\ BReturned(r, "push")
        /\ PushesFirst(Len(blog))
        /\ Len(blog) = BufS - 1
        /\ bth[r].ret = "false"

\* C10: on a full ring buffer (S-1 items pushed), after one successful pull
\* or pop the next push succeeds and the push after it fails.
C10_PullFreesOneSlot ==
    \A r \in Roles :
        /\ (/\ BReturned(r, "push")
            /\ Len(blog) = BufS
            /\ PushesFirst(BufS - 1)
            /\ Consumed(BufS)) => bth[r].ret = "true"
        /\ (/\ BReturned(r, "push")
            /\ Len(blog) = BufS + 1
            /\ PushesFirst(BufS - 1)
            /\ Consumed(BufS)
            /\ blog[BufS + 1].op = "push") => bth[r].ret = "false"


\* The items of the calls in q, in order.
ItemsOf(q) == [i \in 1..Len(q) |-> q[i].item]

IsPush(e) == e.op = "push" /\ e.ret = "true"
IsPull(e) == e.op = "pull" /\ e.ret = "true"

\* The ring buffer calls so far: those that returned and, after them, the
\* producer's and the consumer's call that has its result but has not
\* returned yet.
Pending(r) == IF bth[r].pc = "done"
              THEN <<[op |-> B(r).op, item |-> B(r).item, ret |-> B(r).ret,
                      rval |-> B(r).rval]>>
              ELSE <<>>

BCalls == blog \o Pending("producer") \o Pending("consumer")

\* The items accepted by push and the items delivered by pull, in order.
Pushed == ItemsOf(SelectSeq(BCalls, IsPush))
Pulled == ItemsOf(SelectSeq(BCalls, IsPull))

IsPrefix(p, q) == Len(p) <= Len(q) /\ \A i \in 1..Len(p) : p[i] = q[i]

NoPop == \A i \in 1..Len(BCalls) : BCalls[i].op # "pop"

\* C11: with one producer calling push and one consumer calling pull, under
\* every interleaving the items delivered by the successful pulls are, in
\* order, a prefix of the items accepted by the successful pushes.
C11_PulledPrefixOfPushed ==
    NoPop => IsPrefix(Pulled, Pushed)

\* The position in the log of the k-th call that satisfies Test.
RECURSIVE Kth(_, _, _, _)
Kth(q, Test(_), k, i) ==
    IF i > Len(q) THEN 0
    ELSE IF Test(q[i]) THEN (IF k = 1 THEN i ELSE Kth(q, Test, k - 1, i + 1))
    ELSE Kth(q, Test, k, i + 1)

\* C12: in a sequential run of push and pull calls, the k-th successful
\* pull comes after the k-th successful push and returns its item.
C12_Fifo ==
    (BQuiescent /\ NoPop) =>
        \A k \in 1..Len(blog) :
            Kth(blog, IsPull, k, 1) # 0 =>
                /\ Kth(blog, IsPush, k, 1) # 0
                /\ Kth(blog, IsPush, k, 1) < Kth(blog, IsPull, k, 1)
                /\ blog[Kth(blog, IsPull, k, 1)].item =
                       blog[Kth(blog, IsPush, k, 1)].item


\* Calls i..j of the log are pushes.
Pushes(i, j) == \A m \in i..j : alog[m].op = "push"

\* C13: in a run of pushes that starts at occupancy index 0, the first S
\* pushes return true and every later one returns false; after the k-th
\* push the index is k, and it stays S after the failed ones.
C13_PushUntilFull ==
    \A i \in 1..Len(alog), j \in 1..Len(alog) :
        (i <= j /\ alog[i].c0 = 0 /\ Pushes(i, j)) =>
            /\ alog[j].ret = IF j - i < StackS THEN "true" ELSE "false"
            /\ alog[j].c1 = IF j - i < StackS THEN j - i + 1 ELSE StackS

\* The (S+1)-th push on a new stack has returned false.
C13_Witness ==
    /\ Len(alog) = StackS + 1
    /\ Pushes(1, StackS + 1)
    /\ alog[StackS + 1].ret = "false"
    /\ stack_count_ = StackS

IsTake(e) == e.op \in {"pull", "pop"}
Failed(e) == e.ret \in {"false", "nullopt"}

\* C14: pop and pull at occupancy index 0 report failure and leave the index
\* at 0, and the push that follows succeeds.
C14_TakeFromEmptyFails ==
    \A i \in 1..Len(alog) :
        (IsTake(alog[i]) /\ alog[i].c0 = 0) =>
            /\ Failed(alog[i])
            /\ alog[i].c1 = 0
            /\ (i < Len(alog) /\ alog[i + 1].op = "push") =>
                   alog[i + 1].ret = "true"

\* The nesting depth after calls i..j of the log, a push opening a pair and a
\* pop or pull closing one, starting from depth d; -1 when a pop or pull of
\* i..j has no push of i..j before it to match.
RECURSIVE Depth(_, _, _)
Depth(i, j, d) ==
    IF i > j THEN d
    ELSE IF alog[i].op = "push" THEN Depth(i + 1, j, d + 1)
    ELSE IF d = 0 THEN -1
    ELSE Depth(i + 1, j, d - 1)

\* Calls i..j of the log are balanced pairs of a push and a later pop or pull.
Balanced(i, j) == i <= j /\ Depth(i, j, 0) = 0

\* size() as computed from a value of count_
SizeOf(c) == IF c < 0 THEN 0 ELSE IF c > StackS THEN StackS ELSE c

\* C15 as stated: after balanced pairs of push and pop or pull, successful
\* or failed, size() is what it was before them, and size() is in 0..S.
C15_BalancedKeepsSize ==
    /\ stack_size \in 0..StackS
    /\ \A i \in 1..Len(alog), j \in 1..Len(alog) :
           Balanced(i, j) => SizeOf(alog[j].c1) = SizeOf(alog[i].c0)

\* C15, amended: after balanced pairs whose pushes all succeeded, size() is
\* what it was before them, and size() is in 0..S.
C15_BalancedKeepsSizeIfPushed ==
    /\ stack_size \in 0..StackS
    /\ \A i \in 1..Len(alog), j \in 1..Len(alog) :
           (/\ Balanced(i, j)
            /\ \A m \in i..j : alog[m].op = "push" => alog[m].ret = "true") =>
               SizeOf(alog[j].c1) = SizeOf(alog[i].c0)

\* Two nested pairs on a stack that held an item have returned.
C15_Witness ==
    /\ Len(alog) = 5
    /\ alog[1].op = "push" /\ alog[1].ret = "true"
    /\ alog[2].op = "push" /\ alog[2].ret = "true"
    /\ alog[3].op = "push" /\ alog[3].ret = "true"
    /\ alog[4].op = "pop" /\ alog[5].op = "pull"
    /\ Balanced(2, 5)
    /\ stack_size = 1

\* The slot of data_ that thread t has claimed and is about to access.
Claimed(t) == ath[t].pc \in {"stack_push_write", "stack_pull_read",
                             "stack_pop_read"}

\* C16: under every interleaving of push, pull and pop, two threads never
\* hold a claim on the same slot of data_ at the same time.
C16_DistinctSlots ==
    \A t \in Threads, u \in Threads :
        (t # u /\ Claimed(t) /\ Claimed(u)) => ath[t].count # ath[u].count


\* Access e of the log is a check of the gate, by operator bool or operator!.
IsCheck(e) == e.op \in {"bool", "not"}

\* Check e found the gate armed: operator bool returned true, operator!
\* returned false.
Fired(e) == \/ e.op = "bool" /\ e.ret = "true"
            \/ e.op = "not" /\ e.ret = "false"

\* The number of resets among the first i accesses of the log.
Resets(i) == Cardinality({j \in 1..i : alog[j].op = "reset"})

\* The checks made after exactly n resets.
ChecksOf(n) == {i \in 1..Len(alog) : IsCheck(alog[i]) /\ Resets(i) = n}

\* C17: of the checks that threads make of one armed gate with no reset in
\* between, under every interleaving exactly one finds the gate armed.
C17_ExactlyOneObservesTrue ==
    \A n \in 0..Len(alog) :
        ChecksOf(n) # {} =>
            Cardinality({i \in ChecksOf(n) : Fired(alog[i])}) = 1

\* All threads have checked the new gate in one race: each of them entered
\* before any of them returned, and nobody has reset the gate.
C17_Witness ==
    /\ Len(alog) = NThreads
    /\ \A t \in Threads : ath[t].pc = "done" /\ ath[t].op = "bool"
    /\ Cardinality({t \in Threads : ath[t].ret = "true"}) = 1
    /\ Cardinality({t \in Threads : ath[t].ret = "false"}) = NThreads - 1

\* C18: a check finds the gate armed exactly when it is the first access
\* after construction or the access right after a reset.
C18_FirstCheckAfterArming ==
    \A i \in 1..Len(alog) :
        IsCheck(alog[i]) =>
            (Fired(alog[i]) <=> (i = 1 \/ alog[i - 1].op = "reset"))

\* Two checks, a reset and two more checks have been made.
C18_Witness ==
    /\ Len(alog) >= 5
    /\ Fired(alog[1])
    /\ IsCheck(alog[2]) /\ ~Fired(alog[2])
    /\ alog[3].op = "reset"
    /\ Fired(alog[4])
    /\ IsCheck(alog[5]) /\ ~Fired(alog[5])


\* Access e of the log is a read of the counter, by operator* or operator T;
\* or a store, by set or operator=.
IsRead(e) == e.op \in {"deref", "conv"}
IsStore(e) == e.op \in {"set", "assign"}

\* The last store before access i of the log; 0 when there is none.
RECURSIVE LastStore(_)
LastStore(i) == IF i <= 1 THEN 0
                ELSE IF IsStore(alog[i - 1]) THEN i - 1
                ELSE LastStore(i - 1)

\* The value the counter was seeded with before access i: the value last
\* stored, or that of the default constructor.
Seed(i) == IF LastStore(i) = 0 THEN 0 ELSE alog[LastStore(i)].rval

\* The number of reads between the seeding and access i.
ReadsBefore(i) == i - LastStore(i) - 1

\* Reads i and j belong to the same series of reads of one seeding.
SameSeries(i, j) == IsRead(alog[i]) /\ IsRead(alog[j])
                    /\ LastStore(i) = LastStore(j)

\* C19 as stated: the reads of a single thread that follow a seeding with v
\* return the numbers v, v+1, v+2, ... in that order.
C19_ReadsCountUp ==
    \A i \in 1..Len(alog) :
        IsRead(alog[i]) => alog[i].rval = Seed(i) + ReadsBefore(i)

\* C19, amended: the reads of a single thread that follow a seeding with v
\* return v, v+1, v+2, ... modulo 2^SeqBits in that order, each read leaving
\* the counter one higher modulo 2^SeqBits; reads of one series that are
\* less than 2^SeqBits reads apart return different values.
C19_ReadsCountUpModulo ==
    /\ \A i \in 1..Len(alog) :
           IsRead(alog[i]) =>
               /\ alog[i].rval = (Seed(i) + ReadsBefore(i)) % SeqMod
               /\ (i = Len(alog) /\ AQuiescent) => seq_ = (alog[i].rval + 1) % SeqMod
    /\ \A i \in 1..Len(alog), j \in 1..Len(alog) :
           (SameSeries(i, j) /\ i < j /\ j - i < SeqMod) =>
               alog[i].rval # alog[j].rval

\* A counter seeded with the highest value of T has been read three times.
C19_Witness ==
    /\ Len(alog) >= 4
    /\ IsStore(alog[1]) /\ alog[1].rval = SeqMod - 1
    /\ IsRead(alog[2]) /\ IsRead(alog[3]) /\ IsRead(alog[4])
    /\ alog[4].rval = 1

\* The reads that follow the seeding of the concurrent specification, and
\* the values they returned.
Reads == {i \in 1..Len(alog) : IsRead(alog[i])}
ReadValues == {alog[i].rval : i \in Reads}

\* C20 as stated: the values returned by the concurrent reads of several
\* threads are pairwise distinct and are the numbers v, ..., v+n-1, where v is
\* the seed and n the number of reads.
C20_ConcurrentReadsContiguous ==
    /\ \A i \in Reads, j \in Reads : i # j => alog[i].rval # alog[j].rval
    /\ ReadValues = {Seed(Len(alog) + 1) + k : k \in 0..(Cardinality(Reads) - 1)}

\* C20, amended: the values returned by the concurrent reads of several
\* threads are v, ..., v+n-1 modulo 2^SeqBits, and pairwise distinct while
\* n is at most 2^SeqBits.
C20_ConcurrentReadsContiguousModulo ==
    /\ ReadValues = {(Seed(Len(alog) + 1) + k) % SeqMod :
                        k \in 0..(Cardinality(Reads) - 1)}
    /\ Cardinality(Reads) <= SeqMod =>
           \A i \in Reads, j \in Reads : i # j => alog[i].rval # alog[j].rval

\* Every thread has read the seeded counter twice, the threads taking turns.
C20_Witness ==
    /\ Len(alog) = 2 * NThreads + 1
    /\ IsStore(alog[1])
    /\ \A i \in 2..Len(alog) : IsRead(alog[i])
    /\ \A t \in Threads :
           Cardinality({i \in 2..Len(alog) : alog[i].t = t}) = 2
    /\ alog[2].t # alog[3].t
    /\ \A t \in Threads : ath[t].pc = "done"


\* C21 as stated: two reads with no store between them never return the same
\* value.
C21_ReadsNeverRepeat ==
    \A i \in 1..Len(alog), j \in 1..Len(alog) :
        (SameSeries(i, j) /\ i < j) => alog[i].rval # alog[j].rval

\* C21, amended: two reads with no store between them return the same value
\* exactly when the number of reads from the one to the other is a multiple
\* of 2^SeqBits.
C21_ReadsRepeatEveryModulus ==
    \A i \in 1..Len(alog), j \in 1..Len(alog) :
        (SameSeries(i, j) /\ i < j) =>
            (alog[i].rval = alog[j].rval <=> (j - i) % SeqMod = 0)

\* A counter has been read 2^SeqBits + 1 times in a row.
C21_Witness ==
    \E i \in 1..Len(alog) :
        /\ i + SeqMod <= Len(alog)
        /\ SameSeries(i, i + SeqMod)
        /\ alog[i].rval = alog[i + SeqMod].rval


\* Thread t's call of atomic_ref has its result.
RefDone(t, o) == rth[t].pc = "done" /\ rth[t].op = o

\* The result of a compare_exchange_strong or an exchange is that of an
\* atomic call: a compare_exchange_strong that returns true has stored value
\* over a content of the location equal to expected; one that returns false
\* has stored nothing and has written to expected a content different from
\* the expected passed in; an exchange returns the content its store
\* overwrote.
AtomicResult(t) ==
    /\ (RefDone(t, "compare_exchange_strong") /\ rth[t].ret = "true") =>
           /\ rth[t].replaced = rth[t].given
           /\ rth[t].expected = rth[t].given
    /\ (RefDone(t, "compare_exchange_strong") /\ rth[t].ret = "false") =>
           /\ rth[t].replaced = NoStore
           /\ rth[t].expected # rth[t].given
    /\ RefDone(t, "exchange") => rth[t].rval = rth[t].replaced
    /\ \A o \in RefOps : RefDone(t, o) => rth[t].ret \in {"true", "false", "value", "void"}

\* C22: under every interleaving of the threads' calls, in every branch
\* compiled, compare_exchange_strong and exchange have the result of an
\* atomic call.
C22_CasAndExchangeAtomic ==
    \A t \in Threads : AtomicResult(t)

\* The same in the branches of the builtins and the intrinsics only.
AtomicBranchIsAtomic ==
    ref_path = "atomic" => \A t \in Threads : AtomicResult(t)

\* The nodes reachable from the bucket heads in dictionary state s.
ReachableIn(s) == UNION {Range(ChainIn(s, b)) : b \in Buckets}

\* C23: after clear() has returned on a dictionary no other call works on,
\* every bucket head is empty, size() is 0, empty() is true, contains(k) is
\* false for every key, and every node that was reachable before the call
\* has been freed, none of them twice and none read after its delete.
C23_ClearEmptiesAndReclaims ==
    Returned("clear") =>
        /\ \A b \in Buckets : table_[b] = Null
        /\ size = 0
        /\ empty
        /\ \A k \in Keys : ~contains(k)
        /\ ReachableIn(Before) \cap live = {}
        /\ ~ub

\* clear has returned on a dictionary that held a chain of two nodes and a
\* node in another bucket.
C23_Witness ==
    /\ Returned("clear")
    /\ \E b \in Buckets : Len(ChainIn(Before, b)) >= 2
    /\ \A b \in Buckets : Len(ChainIn(Before, b)) >= 1
    /\ Before.count = MaxNodes
    /\ live = {}

\* ---------------------------------------------- the CAS loops under fairness

\* Concurrent insert and emplace calls of any keys; the nodes bound their
\* number.
LoopEnter(t, o, k, v) ==
    /\ o \in {"insert", "emplace"}
    /\ LowestIdle(t)
    /\ Enter(t, o, k, v, k)
    /\ Ghosts /\ Buffer

LoopStep(t) ==
    \/ insert_load(t) \/ insert_cas(t) \/ insert_count(t)
    \/ emplace_load(t) \/ emplace_cas(t) \/ emplace_count(t)
    \/ Return(t)

NextLoop ==
    \/ \E t \in Threads, o \in {"insert", "emplace"}, k \in Keys, v \in Vals :
          LoopEnter(t, o, k, v)
    \/ \E t \in Threads : LoopStep(t)

\* The compare_exchange_weak of thread t exchanges the head.
CasWins(t) == (insert_cas(t) \/ emplace_cas(t)) /\ table_' # table_

\* Every thread inside a call is scheduled again (fair scheduling), and a
\* compare_exchange_weak that finds the head equal to expected again and
\* again does not fail every time.
LoopFair == \A t \in Threads : WF_vars(LoopStep(t)) /\ SF_vars(CasWins(t))

SpecLoop == Init /\ [][NextLoop]_vars /\ LoopFair

\* Fair scheduling alone.
SpecLoopSched == Init /\ [][NextLoop]_vars /\ \A t \in Threads : WF_vars(LoopStep(t))

InCas(t) == th[t].pc \in {"insert_cas", "emplace_cas"}

\* Thread t's compare_exchange_weak fails in this step.
CasFails(t) == InCas(t) /\ th'[t].pc \in {"insert_load", "emplace_load"}

\* Node n is on the chain that starts at the head of bucket b, after the
\* head itself; the empty chain (n = Null) is the tail of every chain that
\* has a node.
Behind(b, n) ==
    /\ table_[b] # Null
    /\ n # Null => \E i \in 2..Len(Chain(b)) : Chain(b)[i] = n

\* Every call returns.
LoopsTerminate == \A t \in Threads : (th[t].pc # "idle") ~> (th[t].pc = "idle")

\* C24: with finitely many concurrent insert and emplace calls and fair
\* scheduling every call's CAS loop terminates, and whenever a thread's CAS
\* on a bucket head fails, the head is no longer the one the thread read:
\* another thread's exchange has put a node in front of it.
C24_LoopsTerminateAndFailureMeansProgress ==
    /\ LoopsTerminate
    /\ [][\A t \in Threads : CasFails(t) =>
              /\ table_[th[t].index] # th[t].expected
              /\ Behind(th[t].index, th[t].expected)]_vars

\* C24 as the code has it: every call's loop terminates when the scheduling
\* is fair and compare_exchange_weak does not fail without cause for ever;
\* a CAS that fails finds either the head it read (a failure without cause,
\* which compare_exchange_weak may have) or a head that other threads'
\* exchanges have put in front of the one it read.
C24_LoopsTerminateAndFailureIsSpuriousOrProgress ==
    /\ LoopsTerminate
    /\ [][\A t \in Threads : CasFails(t) =>
              \/ table_[th[t].index] = th[t].expected
              \/ Behind(th[t].index, th[t].expected)]_vars

\* A thread's compare_exchange_weak has failed on a head another thread
\* exchanged after the thread read it: the link the thread stored in its
\* node is no longer the head it has just been given.
C24_Witness ==
    \E t \in Threads :
        /\ th[t].pc \in {"insert_load", "emplace_load"}
        /\ th[t].expected # Null
        /\ node_next[th[t].made] # th[t].expected
        /\ \E u \in Threads \ {t} : th[u].pc \in {"insert_count", "emplace_count", "done"}

\* Thread t's call of o has reached its return and t has not yet made
\* another call.
DoneOp(t, o) == th[t].pc = "done" /\ th[t].op = o

\* C25: when remove(k1) runs concurrently with insert(k2, v), k1 # k2 in the
\* same bucket (k1 having been put there by the one call made before), then
\* after both have returned contains(k2) is true and find(k2) is v: the
\* unlink never drops the node insert prepended.
C25_RemoveKeepsConcurrentInsert ==
    \A a, b \in Threads :
        ( /\ a # b
          /\ calls = 3
          /\ DoneOp(a, "insert")
          /\ DoneOp(b, "remove") /\ th[b].ret = "true"
          /\ th[a].key # th[b].key
          /\ th[a].index = th[b].index )
        => /\ contains(th[a].key)
           /\ find(th[a].key) = th[a].val

\* Threads a and b have both returned from a call of o with the same key,
\* the only two calls made on the dictionary (which was empty, so the key
\* was absent); a key that is moved from keeps its value.
BothDone(a, b, o) ==
    /\ a # b
    /\ calls = 2
    /\ DoneOp(a, o) /\ DoneOp(b, o)
    /\ th[a].key = th[b].key
    /\ th[a].mkey = th[a].key /\ th[b].mkey = th[b].key

\* C26: when two threads concurrently call insert_or_assign (or try_emplace)
\* with the same absent key, after both have returned the table holds exactly
\* one node for the key and size() has grown by one, and exactly one of two
\* try_emplace calls has returned true.
C26_ConcurrentUpsertsDeduplicate ==
    \A a, b \in Threads :
        /\ \A o \in {"insert_or_assign", "try_emplace"} :
              BothDone(a, b, o) =>
                  /\ Cardinality(Holding(Snapshot, th[a].key)) = 1
                  /\ size = 1
        /\ BothDone(a, b, "try_emplace") => (th[a].ret = "true") # (th[b].ret = "true")

\* C27: when two threads concurrently call remove(k) for a key held by
\* exactly one node (put there by the one call made before), exactly one of
\* them returns true, the node is deleted once (no delete of a freed node, no
\* use of it after the delete), and size() has gone down by exactly one (the
\* count has not wrapped below zero).
C27_ConcurrentRemovesOnce ==
    \A a, b \in Threads :
        ( /\ a # b
          /\ calls = 3
          /\ DoneOp(a, "remove") /\ DoneOp(b, "remove")
          /\ th[a].key = th[b].key
          /\ \E t \in {a, b} : th[t].ret = "true" )
        => /\ (th[a].ret = "true") # (th[b].ret = "true")
           /\ ~ub
           /\ size = 0

Readers == {"find", "contains", "at"}

\* Thread t takes a step of a call that reads the dictionary.
ReaderStep(t) == th'[t] # th[t] /\ (th[t].op \in Readers \/ th'[t].op \in Readers)

\* Thread u's remove passes its delete.
DeleteStep(u) == th[u].pc = "remove_delete" /\ th'[u].pc # "remove_delete"

\* C28: remove reclaims at once and nothing protects a reader: the delete of
\* remove frees the node it unlinked whichever threads still hold a pointer
\* to it, and the steps of find, contains and at write nothing a remove
\* could see; so a reader can dereference a node that a remove has
\* deallocated (the state C28_Witness describes is reachable).
C28_RemoveReclaimsUnderReaders ==
    [][/\ \A u \in Threads : DeleteStep(u) => th[u].current \notin live'
       /\ \A t \in Threads : ReaderStep(t) =>
              UNCHANGED <<table_, count_, node_key, node_value, node_next, live>>]_vars

\* A find, running while a remove on its bucket deleted the only node ever
\* inserted, has read the key of that node after the delete.
C28_Witness ==
    \E t, u \in Threads :
        /\ t # u
        /\ calls = 3
        /\ th[t].op = "find" /\ th[t].pc \in {"find_next", "done"}
        /\ th[u].op = "remove" /\ th[u].pc \in {"remove_count", "done"}
        /\ th[u].ret # "false"
        /\ th[t].index = th[u].index
        /\ live = {}
        /\ ub

\* Thread t is about to access data_[count]: the write of push or the read
\* of pull or pop.
AtSlotAccess(t) ==
    ath[t].pc \in {"stack_push_write", "stack_pull_read", "stack_pop_read"}

\* C29: every access push, pull and pop make to the array uses an index in
\* 0..S-1; a call that drew an index out of that range reports failure and
\* touches no slot.
C29_SlotIndexInRange ==
    \A t \in Threads : AtSlotAccess(t) => ath[t].count \in StackSlots

\* The item a successful pull or pop of the log returned.
Taken(e) == IF e.op = "pull" THEN e.item ELSE e.rval

\* The items a LIFO stack holds after calls 1..i of the log, the top last:
\* a successful push adds its item, a successful pop or pull takes the top.
RECURSIVE LifoAfter(_)
LifoAfter(i) ==
    IF i = 0 THEN <<>>
    ELSE LET s == LifoAfter(i - 1)
             e == alog[i]
         IN  IF e.op = "push" /\ e.ret = "true" THEN Append(s, e.item)
             ELSE IF IsTake(e) /\ ~Failed(e) /\ Len(s) > 0
                  THEN SubSeq(s, 1, Len(s) - 1)
             ELSE s

\* C30: in every sequence of calls made one after another, a pop or pull
\* that succeeds while a pushed item is yet to be taken returns the item of
\* the most recent successful push not yet taken.
C30_Lifo ==
    \A i \in 1..Len(alog) :
        (IsTake(alog[i]) /\ ~Failed(alog[i]) /\ Len(LifoAfter(i - 1)) > 0) =>
            Taken(alog[i]) = LifoAfter(i - 1)[Len(LifoAfter(i - 1))]

\* The ring buffer call that has just returned took an item out.
BTook(r) == \/ BReturned(r, "pull") /\ bth[r].ret = "true"
            \/ BReturned(r, "pop") /\ bth[r].ret = "value"

\* The index after i in the ring.
BNext(i) == (i + 1) % BufS

\* C31: with one call at a time, a successful pull or pop sets head to
\* (head+1) mod S and leaves tail as it was; a successful push sets tail to
\* (tail+1) mod S and leaves head as it was.
C31_OnlyOwnIndexMoves ==
    \A r \in Roles :
        /\ BTook(r) => /\ head_ = BNext(bth[r].pre.head)
                       /\ tail_ = bth[r].pre.tail
        /\ (BReturned(r, "push") /\ bth[r].ret = "true") =>
                       /\ tail_ = BNext(bth[r].pre.tail)
                       /\ head_ = bth[r].pre.head

\* What pull does when called in buffer state s with no other call running:
\* whether it delivers an item, the items it can deliver (the content of the
\* head slot), and head_ and tail_ afterwards.
PullFrom(s) ==
    IF s.head = s.tail
    THEN [ok |-> FALSE, items |-> {}, head |-> s.head, tail |-> s.tail]
    ELSE [ok |-> TRUE,
          items |-> IF s.data[s.head] = 0 THEN Items ELSE {s.data[s.head]},
          head |-> s.head, tail |-> s.tail]

\* C32: with one call at a time, pop on a buffer that is not empty returns
\* the item of the head slot, the one pull would deliver in the same state,
\* and leaves head and tail as pull would; on an empty buffer it returns an
\* empty optional.
C32_PopAsPull ==
    \A r \in Roles :
        BReturned(r, "pop") =>
            /\ (bth[r].ret = "value") = PullFrom(bth[r].pre).ok
            /\ (bth[r].ret = "nullopt") = ~PullFrom(bth[r].pre).ok
            /\ bth[r].ret = "value" => bth[r].rval \in PullFrom(bth[r].pre).items
            /\ head_ = PullFrom(bth[r].pre).head
            /\ tail_ = PullFrom(bth[r].pre).tail

\* The number of items stored in buffer state s.
StoredIn(s) == (s.tail - s.head) % BufS

Stored == StoredIn([head |-> head_, tail |-> tail_])

\* Calls i..j of the log are pulls and pops that delivered an item.
TakesOnly(i, j) == \A n \in i..j : Consumed(n)

\* C33: the ring buffer drains.  With one call at a time, every successful
\* pull or pop leaves fewer items stored than before it, and no more than
\* S-1 pulls and pops in a row, with no push between them, deliver an item:
\* the next one reports empty.
C33_Drains ==
    /\ \A r \in Roles : BTook(r) => Stored < StoredIn(bth[r].pre)
    /\ \A i \in 1..Len(blog) :
          (i + BufS - 1 <= Len(blog)) => ~TakesOnly(i, i + BufS - 1)

\* The calls of the log that put an item in, and those that took one out.
PushedCalls == {i \in 1..Len(blog) : blog[i].op = "push" /\ blog[i].ret = "true"}
TakenCalls == {i \in 1..Len(blog) : Consumed(i)}

\* C34: in every state between calls, head and tail lie in 0..S-1, the number
\* of items stored (those pushed and not yet taken) is (tail - head) mod S
\* and at most S-1, full() is true exactly when (tail+1) mod S = head, and
\* empty() exactly when head = tail.
C34_IndexInvariant ==
    BQuiescent =>
        /\ head_ \in Slots /\ tail_ \in Slots
        /\ Cardinality(PushedCalls) - Cardinality(TakenCalls) = Stored
        /\ Stored <= BufS - 1
        /\ buffer_full = (BNext(tail_) = head_)
        /\ buffer_empty = (head_ = tail_)

\* The buffer is as it was when the call of r started.
BufferAsBefore(r) ==
    /\ head_ = bth[r].pre.head
    /\ tail_ = bth[r].pre.tail
    /\ data_ = bth[r].pre.data

\* C35: with one call at a time, a pull or pop returns false or an empty
\* optional exactly when head = tail at the call, and then head, tail, the
\* slots and the caller's item are as before; a push returns false exactly
\* when (tail+1) mod S = head at the call, and then head, tail and the slots
\* are as before.
C35_FailureChangesNothing ==
    \A r \in Roles :
        /\ BReturned(r, "pull") =>
              /\ (bth[r].ret = "false") = (bth[r].pre.head = bth[r].pre.tail)
              /\ bth[r].ret = "false" => BufferAsBefore(r) /\ bth[r].item = 1
        /\ BReturned(r, "pop") =>
              /\ (bth[r].ret = "nullopt") = (bth[r].pre.head = bth[r].pre.tail)
              /\ bth[r].ret = "nullopt" => BufferAsBefore(r)
        /\ BReturned(r, "push") =>
              /\ (bth[r].ret = "false") = (BNext(bth[r].pre.tail) = bth[r].pre.head)
              /\ bth[r].ret = "false" => BufferAsBefore(r)

\* A push has returned false on a buffer with S-1 slots written, after a
\* pull and a pop had each failed on the empty buffer.
C35_Witness ==
    /\ BReturned("producer", "push")
    /\ bth["producer"].ret = "false"
    /\ Cardinality({i \in Slots : data_[i] # 0}) = BufS - 1
    /\ \E i \in 1..Len(blog) : blog[i].op = "pull" /\ blog[i].ret = "false"
    /\ \E i \in 1..Len(blog) : blog[i].op = "pop" /\ blog[i].ret = "nullopt"

\* The entries of the chain of bucket b in dictionary state s, in chain
\* order.
PairsIn(s, b) == [i \in 1..Len(ChainIn(s, b)) |->
                     [key |-> s.key[ChainIn(s, b)[i]],
                      value |-> s.value[ChainIn(s, b)[i]]]]

\* dictionary_t::each (and keys, for the keys) run to completion on
\* dictionary state s: the entries func is called with, in the order of the
\* calls, from bucket b on.
RECURSIVE EachFrom(_, _)
EachFrom(s, b) == IF b = DictS THEN <<>> ELSE PairsIn(s, b) \o EachFrom(s, b + 1)

EachIn(s) == EachFrom(s, 0)

\* The entries each visits in the buckets before b.
EachBelow(s, b) == SubSeq(EachIn(s), 1, Len(EachIn(s)) - Len(EachFrom(s, b)))

\* Sequence q without the members that are not in set m.
Only(q, m) == SelectSeq(q, LAMBDA n : n \in m)

\* C36: with one call at a time, right after insert or emplace of (k, v),
\* whatever nodes already hold k, find(k) and at(k) give v, and each visits
\* the buckets in index order and what it visited before, with (k, v) put in
\* front of the entries of k's bucket; every call keeps the order that the
\* nodes which stay had in their chain, so every bucket is visited most
\* recently inserted first; and a find or at call returns the value of the
\* first node of the chain that holds the key.
C36_MostRecentFirst ==
    /\ (Returned("insert") \/ Returned("emplace")) =>
          LET k == th[1].key
              v == th[1].val
              b == key_index(k)
          IN  /\ find(k) = v
              /\ at(k) = [ret |-> "value", rval |-> v]
              /\ EachIn(Snapshot) = EachBelow(Before, b)
                                       \o <<[key |-> k, value |-> v]>>
                                       \o EachFrom(Before, b)
    /\ (th[1].pc = "done" /\ Len(pre) = 1) =>
          \A b \in Buckets :
              Only(Chain(b), ReachableIn(Before)) = Only(ChainIn(Before, b), Reachable)
    /\ ((Returned("find") \/ Returned("at")) /\ ContainsIn(Before, th[1].key)) =>
          /\ th[1].ret = "value"
          /\ th[1].rval = FindIn(Before, th[1].key)

\* insert has returned for a key that two nodes with other values already
\* held, and find of that key gave another value before the call.
C36_Witness ==
    /\ Returned("insert")
    /\ Cardinality(Holding(Before, th[1].key)) = 2
    /\ FindIn(Before, th[1].key) # th[1].val
    /\ Len(Chain(key_index(th[1].key))) = 3

\* Concurrent insert and remove calls, every insert with the value 1.
ChainEnter(t, o, k) ==
    /\ calls < MaxChainCalls
    /\ LowestIdle(t)
    /\ \/ o = "insert" /\ Enter(t, o, k, 1, k)
       \/ o = "remove" /\ EnterPlain(t, o, k)
    /\ calls' = calls + 1
    /\ UNCHANGED <<hist, assigned, pre>>
    /\ Buffer

ChainStep(t) ==
    \/ insert_load(t) \/ insert_cas(t) \/ insert_count(t)
    \/ remove_load(t) \/ remove_test(t) \/ remove_next(t) \/ remove_unlink(t)
    \/ remove_delete(t) \/ remove_count(t) \/ remove_advance(t)
    \/ Return(t)

NextChain ==
    \/ \E t \in Threads, o \in {"insert", "remove"}, k \in Keys : ChainEnter(t, o, k)
    \/ \E t \in Threads : ChainStep(t)

SpecChain == Init /\ [][NextChain]_vars

\* Following the next links from the head of bucket b ends at nullptr
\* without meeting a node twice.
Acyclic(b) ==
    LET c == ChainFrom(Snapshot, table_[b], MaxNodes + 1)
    IN  Cardinality(Range(c)) = Len(c)

\* C37: in every state reachable by calls made one after another or
\* concurrently, the chain of every bucket is acyclic and finite and every
\* node on the chain of bucket i holds a key with hash(key) mod S = i (checked
\* for the allocated nodes of the chains, in the states reached without any
\* call having read or written a node after its delete).
C37_ChainsWellFormed ==
    ~ub => \A b \in Buckets :
               /\ Acyclic(b)
               /\ \A n \in Range(Chain(b)) : n \in live => key_index(node_key[n]) = b

Updaters == {"insert", "insert_or_assign", "emplace", "try_emplace", "remove"}

\* C38: with one call at a time, insert, insert_or_assign, emplace,
\* try_emplace and remove of key k leave the chain of every bucket other
\* than k's as it was, nodes and entries, and leave every other key as
\* present or absent as it was and with the value it had; find, contains
\* and at (and with them size, empty and keys, which only load) change
\* nothing.
C38_OnlyOwnBucketAndKey ==
    /\ \A o \in Updaters :
          Returned(o) =>
              /\ \A b \in Buckets \ {key_index(th[1].key)} :
                    /\ Chain(b) = ChainIn(Before, b)
                    /\ PairsIn(Snapshot, b) = PairsIn(Before, b)
              /\ \A k \in Keys \ {th[1].key} :
                    /\ contains(k) = ContainsIn(Before, k)
                    /\ find(k) = FindIn(Before, k)
    /\ \A o \in Readers : Returned(o) => Snapshot = Before

\* remove has unlinked a node that was not the first of its chain, another
\* key being held in front of it and a third in the other bucket.
C38_Witness ==
    /\ Returned("remove")
    /\ th[1].ret = "true"
    /\ Len(ChainIn(Before, key_index(th[1].key))) >= 2
    /\ Before.key[ChainIn(Before, key_index(th[1].key))[1]] # th[1].key
    /\ \E b \in Buckets \ {key_index(th[1].key)} : Len(Chain(b)) >= 1

\* C39 as stated: whatever was done with the counter before, the first read
\* after set(v) or an assignment of v returns v and the second returns v+1.
C39_SetThenReads ==
    \A i \in 1..Len(alog) :
        IsStore(alog[i]) =>
            /\ (i + 1 <= Len(alog) /\ IsRead(alog[i + 1])) => alog[i + 1].rval = alog[i].rval
            /\ (i + 2 <= Len(alog) /\ IsRead(alog[i + 1]) /\ IsRead(alog[i + 2])) =>
                   alog[i + 2].rval = alog[i].rval + 1

\* C39, amended: set(v) and assignment of v store v without incrementing:
\* the counter holds v right after them, the first read that follows returns
\* v and the second returns v+1 modulo 2^SeqBits, whatever was done with the
\* counter before.
C39_SetThenReadsModulo ==
    /\ \A i \in 1..Len(alog) :
          IsStore(alog[i]) =>
              /\ (i = Len(alog) /\ AQuiescent) => seq_ = alog[i].rval
              /\ (i + 1 <= Len(alog) /\ IsRead(alog[i + 1])) =>
                     alog[i + 1].rval = alog[i].rval
              /\ (i + 2 <= Len(alog) /\ IsRead(alog[i + 1]) /\ IsRead(alog[i + 2])) =>
                     alog[i + 2].rval = (alog[i].rval + 1) % SeqMod
    /\ \A t \in Threads :
          (ath[t].pc = "done" /\ ath[t].op \in {"set", "assign"}) => seq_ = ath[t].item

\* A counter that had been read was set to the highest value of T and then
\* read twice, the second read returning 0.
C39_Witness ==
    \E i \in 2..Len(alog) :
        /\ IsRead(alog[i - 1])
        /\ IsStore(alog[i]) /\ alog[i].rval = SeqMod - 1
        /\ i + 2 <= Len(alog)
        /\ IsRead(alog[i + 1]) /\ IsRead(alog[i + 2])
        /\ alog[i + 2].rval = 0

\* What call e of the log adds to the location.
Delta(e) == IF e.op \in AddOps THEN e.value ELSE 0 - e.value

\* The sum of the deltas of the first n calls of the log.
RECURSIVE DeltaSum(_)
DeltaSum(n) == IF n = 0 THEN 0 ELSE DeltaSum(n - 1) + Delta(rlog[n])

\* Once all calls have returned the location holds its first value plus the
\* deltas of all calls, modulo 2^RefBits.
NoUpdateLost == RQuiescent => ref = (ref0 + DeltaSum(Len(rlog))) % RefMod

\* Calls of fetch_add(1) that overlap returned different values: two threads
\* that both hold the result of a call not yet returned, while the calls made
\* are no more than the values of RefBits bits (more calls wrap around).
IsAddOne(e) == e.op \in {"fetch_add", "post_inc"} /\ e.value = 1

AddOneDistinct ==
    \A s \in Threads, t \in Threads :
        (s # t /\ Len(rlog) + 2 <= RefMod
               /\ rth[s].pc = "done" /\ rth[t].pc = "done"
               /\ IsAddOne(rth[s]) /\ IsAddOne(rth[t])) => rth[s].rval # rth[t].rval

\* The prefix increment returned the value its store wrote, the postfix
\* increment the value its store overwrote, both as values of RefBits bits.
PrefixNewPostfixOld ==
    \A t \in Threads :
        /\ RefDone(t, "pre_inc") => rth[t].rval % RefMod = RefAdd(rth[t].replaced, 1)
        /\ RefDone(t, "post_inc") => rth[t].rval = rth[t].replaced

\* The prefix increment returned a value of RefBits bits: the sum
\* fetch_add(1) + 1 is made in int and is not narrowed to T.
PrefixReturnsNarrow ==
    \A t \in Threads : RefDone(t, "pre_inc") => rth[t].rval \in RefVals

\* C40: when threads apply fetch_add, fetch_sub, ++, --, += and -= to one
\* location concurrently, in every branch compiled, the final value is the
\* first value plus the sum of the deltas modulo 2^w, concurrent fetch_add(1)
\* calls return pairwise different values, the prefix increment returns the
\* new value and the postfix increment the old one.
C40_NoLostUpdate ==
    /\ NoUpdateLost
    /\ AddOneDistinct
    /\ PrefixNewPostfixOld

\* In the branches of the builtins and the intrinsics no update is lost and
\* fetch_add(1) calls return different values.
AtomicBranchLosesNoUpdate ==
    ref_path = "atomic" => NoUpdateLost /\ AddOneDistinct


====
